---------------------------- MODULE Spec2Model ----------------------------
(***************************************************************************)
(* A model of lib/index.js of package-exports: packageExports and the      *)
(* export-map resolver it drives.                                          *)
(*                                                                         *)
(* Strings are sequences of one-character strings, so that startsWith,     *)
(* indexOf, slice, split and join are computed as JavaScript computes      *)
(* them.  Positions are 1-based here; 0 stands for JavaScript's -1.        *)
(*                                                                         *)
(* A JSON value is a tagged record:                                        *)
(*   [t |-> "str", s |-> chars]   a string                                 *)
(*   [t |-> "null"]               null                                     *)
(*   [t |-> "num"]                any other scalar (number, boolean)       *)
(*   [t |-> "arr", items |-> <<values>>]                                   *)
(*   [t |-> "obj", props |-> << <<key, value>>, ... >>]                    *)
(* An object lists its properties in the order of the source text, with    *)
(* distinct keys.                                                          *)
(***************************************************************************)
EXTENDS Integers, Sequences, FiniteSets, TLC

----------------------------------------------------------------------------
(* JavaScript string operations *)

\* `undefined` for a value that is otherwise a sequence or a string.
Undefined == [def |-> FALSE]

Some(v) == [def |-> TRUE, v |-> v]

Range(s) == { s[i] : i \in 1..Len(s) }

\* s.slice(from - 1) and s.slice(from - 1, to) in 1-based positions.
SliceFrom(s, from) == SubSeq(s, from, Len(s))

Slice(s, from, to) == SubSeq(s, from, to)

\* s.startsWith(p)
StartsWith(s, p) == Len(p) <= Len(s) /\ SubSeq(s, 1, Len(p)) = p

\* s.endsWith(p)
EndsWith(s, p) ==
    Len(p) <= Len(s) /\ SubSeq(s, Len(s) - Len(p) + 1, Len(s)) = p

\* s.indexOf(p, from - 1) + 1: the first position >= from where p occurs, or 0.
IndexOf(s, p, from) ==
    LET hits == { i \in from..(Len(s) - Len(p) + 1) :
                    SubSeq(s, i, i + Len(p) - 1) = p }
    IN  IF hits = {} THEN 0 ELSE CHOOSE i \in hits : \A j \in hits : i <= j

\* s.includes(p)
Includes(s, p) == IndexOf(s, p, 1) # 0

\* s.split(c) for a one-character separator c (a one-element sequence).
RECURSIVE Split(_, _)
Split(s, c) ==
    LET i == IndexOf(s, c, 1)
    IN  IF i = 0 THEN <<s>>
        ELSE <<SubSeq(s, 1, i - 1)>> \o Split(SubSeq(s, i + 1, Len(s)), c)

\* parts.join(sep)
RECURSIVE Join(_, _)
Join(parts, sep) ==
    IF Len(parts) = 0 THEN <<>>
    ELSE IF Len(parts) = 1 THEN parts[1]
    ELSE parts[1] \o sep \o Join(Tail(parts), sep)

\* array.includes(x)
ArrayIncludes(arr, x) == \E i \in 1..Len(arr) : arr[i] = x

----------------------------------------------------------------------------
(* JavaScript objects and the jsonc-parser tree *)

Digits == {"0", "1", "2", "3", "4", "5", "6", "7", "8", "9"}

DigitValue(c) ==
    CASE c = "0" -> 0 [] c = "1" -> 1 [] c = "2" -> 2 [] c = "3" -> 3
      [] c = "4" -> 4 [] c = "5" -> 5 [] c = "6" -> 6 [] c = "7" -> 7
      [] c = "8" -> 8 [] c = "9" -> 9

\* A key that is a canonical array index ("0", "7", "10"; not "", "01", "a").
IsArrayIndex(key) ==
    /\ Len(key) >= 1
    /\ \A i \in 1..Len(key) : key[i] \in Digits
    /\ (Len(key) = 1 \/ key[1] # "0")

RECURSIVE NumValue(_)
NumValue(key) ==
    IF Len(key) = 0 THEN 0
    ELSE NumValue(SubSeq(key, 1, Len(key) - 1)) * 10 + DigitValue(key[Len(key)])

\* The keys of a set of integer-like keys, ascending by value.
RECURSIVE SortIndexKeys(_)
SortIndexKeys(keys) ==
    IF keys = {} THEN <<>>
    ELSE LET least == CHOOSE k \in keys :
                        \A other \in keys : NumValue(k) <= NumValue(other)
         IN  <<least>> \o SortIndexKeys(keys \ {least})

\* The keys of the properties in the order of the source text.
DeclaredKeys(props) == [i \in 1..Len(props) |-> props[i][1]]

\* Object.keys(value) of the object JSON.parse builds from the source text:
\* integer-like keys first, ascending, then the other keys in the order they
\* were created, which is the order of the source text.
ObjectKeys(props) ==
    LET declared == DeclaredKeys(props)
        IsName(k) == ~IsArrayIndex(k)
    IN  SortIndexKeys({ k \in Range(declared) : IsArrayIndex(k) })
        \o SelectSeq(declared, IsName)

\* value[key]
PropertyValue(props, key) ==
    props[CHOOSE i \in 1..Len(props) : props[i][1] = key][2]

\* A segment of a JSON path: a property name or an array index.
Key(name) == [key |-> name]

Index(n) == [idx |-> n]

IsKey(segment) == "key" \in DOMAIN segment

\* findNodeAtLocation(tree, path) of jsonc-parser, which walks the syntax tree
\* of the source text: the node's place in the text as the sequence of
\* declaration positions leading to it, or Undefined when no node is there.
RECURSIVE findNodeAtLocation(_, _)
findNodeAtLocation(node, path) ==
    IF Len(path) = 0 THEN Some(<<>>)
    ELSE
      LET segment == path[1]
      IN  IF IsKey(segment)
          THEN IF node.t # "obj" THEN Undefined
               ELSE LET hits == { i \in 1..Len(node.props) :
                                    node.props[i][1] = segment.key }
                    IN  IF hits = {} THEN Undefined
                        ELSE LET first == CHOOSE i \in hits :
                                            \A j \in hits : i <= j
                                 below == findNodeAtLocation(
                                            node.props[first][2], Tail(path))
                             IN  IF below.def THEN Some(<<first>> \o below.v)
                                 ELSE Undefined
          ELSE IF node.t # "arr" \/ segment.idx >= Len(node.items)
               THEN Undefined
               ELSE LET below == findNodeAtLocation(
                                   node.items[segment.idx + 1], Tail(path))
                    IN  IF below.def
                        THEN Some(<<segment.idx + 1>> \o below.v)
                        ELSE Undefined

----------------------------------------------------------------------------
(* minimatch, as addDynamic uses it: new Minimatch(pattern, {dot: true,    *)
(* nobrace: true, noext: true}).match(file).  The only magic character of  *)
(* the patterns modelled is `*`: a path segment that is exactly `**` is a  *)
(* globstar and matches zero or more segments; any other `*` matches a run *)
(* of characters without `/`.                                              *)

Star == <<"*">>

Slash == <<"/">>

\* One pattern segment against one file segment, character by character.
RECURSIVE MatchChars(_, _)
MatchChars(pattern, text) ==
    IF Len(pattern) = 0 THEN Len(text) = 0
    ELSE IF pattern[1] = "*"
    THEN \E k \in 0..Len(text) :
           MatchChars(Tail(pattern), SubSeq(text, k + 1, Len(text)))
    ELSE /\ Len(text) > 0
         /\ pattern[1] = text[1]
         /\ MatchChars(Tail(pattern), Tail(text))

\* A segment without magic is compared as a string.  A magic segment never
\* matches `.` or `..`, and a segment that is only `*` needs one character.
MatchSegment(pattern, text) ==
    IF ~Includes(pattern, Star) THEN pattern = text
    ELSE /\ text # <<".">>
         /\ text # <<".", ".">>
         /\ (pattern = Star => Len(text) > 0)
         /\ MatchChars(pattern, text)

\* matchOne of minimatch over the segments of the file and of the pattern.
RECURSIVE MatchOne(_, _)
MatchOne(file, pattern) ==
    IF Len(pattern) = 0 THEN Len(file) = 0
    ELSE IF pattern[1] = <<"*", "*">>
    THEN IF Len(pattern) = 1
         THEN \A i \in 1..Len(file) :
                file[i] # <<".">> /\ file[i] # <<".", ".">>
         ELSE \E k \in 0..Len(file) :
                /\ \A i \in 1..k :
                     file[i] # <<".">> /\ file[i] # <<".", ".">>
                /\ MatchOne(SubSeq(file, k + 1, Len(file)), Tail(pattern))
    ELSE /\ Len(file) > 0
         /\ MatchSegment(pattern[1], file[1])
         /\ MatchOne(Tail(file), Tail(pattern))

Minimatch(pattern, file) == MatchOne(Split(file, Slash), Split(pattern, Slash))

\* findWildcardReplacements(parts, filePaths): for each matched file, the first
\* candidate replacement that, joined into the parts, gives the file back.
\* The candidates are the texts between the first part and each occurrence of
\* the second part, then everything after the first part.  [threw, results]:
\* threw when assert(filePath.slice(0, first.length) === first) fails.
WildcardOptions(parts, filePath) ==
    LET start == Len(parts[1]) + 1
        second == parts[2]
        ends == IF second = <<>> THEN {}
                ELSE { i \in start..(Len(filePath) - Len(second) + 1) :
                         SubSeq(filePath, i, i + Len(second) - 1) = second }
        RECURSIVE Upto(_)
        Upto(i) ==
            IF i > Len(filePath) THEN <<>>
            ELSE (IF i \in ends THEN <<SubSeq(filePath, start, i - 1)>>
                  ELSE <<>>) \o Upto(i + 1)
    IN  Upto(start) \o <<SliceFrom(filePath, start)>>

\* findWildcardReplacements with a slip: the first candidate is taken
\* without joining it into the parts.
RECURSIVE findWildcardReplacementsUnchecked(_, _)
findWildcardReplacementsUnchecked(parts, filePaths) ==
    IF Len(filePaths) = 0 THEN [threw |-> FALSE, results |-> <<>>]
    ELSE
      LET filePath == filePaths[1]
      IN  IF ~StartsWith(filePath, parts[1])
          THEN [threw |-> TRUE, results |-> <<>>]
          ELSE
            LET options == WildcardOptions(parts, filePath)
                rest == findWildcardReplacementsUnchecked(parts,
                                                          Tail(filePaths))
            IN  [threw |-> rest.threw,
                 results |-> <<options[1]>> \o rest.results]

RECURSIVE findWildcardReplacements(_, _)
findWildcardReplacements(parts, filePaths) ==
    IF Len(filePaths) = 0 THEN [threw |-> FALSE, results |-> <<>>]
    ELSE
      LET filePath == filePaths[1]
      IN  IF ~StartsWith(filePath, parts[1])
          THEN [threw |-> TRUE, results |-> <<>>]
          ELSE
            LET options == WildcardOptions(parts, filePath)
                good == { i \in 1..Len(options) :
                            Join(parts, options[i]) = filePath }
                found == IF good = {} THEN <<>>
                         ELSE <<options[CHOOSE i \in good :
                                          \A j \in good : i <= j]>>
                rest == findWildcardReplacements(parts, Tail(filePaths))
            IN  [threw |-> rest.threw, results |-> found \o rest.results]

----------------------------------------------------------------------------
(* Names *)

sDot == <<".">>

sDotSlash == <<".","/">>

sDefault == <<"d","e","f","a","u","l","t">>

sTypes == <<"t","y","p","e","s">>

sName == <<"n","a","m","e">>

sType == <<"t","y","p","e">>

sFiles == <<"f","i","l","e","s">>

sMain == <<"m","a","i","n">>

sExports == <<"e","x","p","o","r","t","s">>

sModule == <<"m","o","d","u","l","e">>

sCommonjs == <<"c","o","m","m","o","n","j","s">>

\* mainDefaults
mainDefaults == << <<".","/","i","n","d","e","x",".","j","s">>, <<".","/","i","n","d","e","x",".","j","s","o","n">>, <<".","/","i","n","d","e","x",".","n","o","d","e">> >>

\* mainSuffixes
mainSuffixes ==
    << <<".","j","s">>, <<".","j","s","o","n">>, <<".","n","o","d","e">>,
       <<"/","i","n","d","e","x",".","j","s">>, <<"/","i","n","d","e","x",".","j","s","o","n">>, <<"/","i","n","d","e","x",".","n","o","d","e">> >>

\* mutuallyExclusiveConditions with a slip: every group counts as exhaustive.
mutuallyExclusiveConditionsAllExhaustive ==
    << [conditions |-> << <<"d","e","v","e","l","o","p","m","e","n","t">>, <<"p","r","o","d","u","c","t","i","o","n">> >>,
        exhaustive |-> TRUE],
       [conditions |-> << <<"i","m","p","o","r","t">>, <<"r","e","q","u","i","r","e">> >>, exhaustive |-> TRUE],
       [conditions |-> << <<"n","o","d","e">>, <<"n","o","d","e","-","a","d","d","o","n","s">> >>, exhaustive |-> TRUE],
       [conditions |->
          << <<"b","r","o","w","s","e","r">>, <<"e","d","g","e","-","r","o","u","t","i","n","e">>, <<"w","o","r","k","e","r","d">>, <<"d","e","n","o">>, <<"l","a","g","o","n">>,
             <<"r","e","a","c","t","-","n","a","t","i","v","e">>, <<"m","o","d","d","a","b","l","e">>, <<"n","e","t","l","i","f","y">>, <<"e","l","e","c","t","r","o","n">>, <<"n","o","d","e">>,
             <<"b","u","n">>, <<"r","e","a","c","t","-","s","e","r","v","e","r">>, <<"e","d","g","e","-","l","i","g","h","t">>, <<"f","a","s","t","l","y">> >>,
        exhaustive |-> TRUE] >>

\* mutuallyExclusiveConditions
mutuallyExclusiveConditions ==
    << [conditions |-> << <<"d","e","v","e","l","o","p","m","e","n","t">>, <<"p","r","o","d","u","c","t","i","o","n">> >>,
        exhaustive |-> FALSE],
       [conditions |-> << <<"i","m","p","o","r","t">>, <<"r","e","q","u","i","r","e">> >>, exhaustive |-> TRUE],
       [conditions |-> << <<"n","o","d","e">>, <<"n","o","d","e","-","a","d","d","o","n","s">> >>, exhaustive |-> FALSE],
       [conditions |->
          << <<"b","r","o","w","s","e","r">>, <<"e","d","g","e","-","r","o","u","t","i","n","e">>, <<"w","o","r","k","e","r","d">>, <<"d","e","n","o">>, <<"l","a","g","o","n">>,
             <<"r","e","a","c","t","-","n","a","t","i","v","e">>, <<"m","o","d","d","a","b","l","e">>, <<"n","e","t","l","i","f","y">>, <<"e","l","e","c","t","r","o","n">>, <<"n","o","d","e">>,
             <<"b","u","n">>, <<"r","e","a","c","t","-","s","e","r","v","e","r">>, <<"e","d","g","e","-","l","i","g","h","t">>, <<"f","a","s","t","l","y">> >>,
        exhaustive |-> FALSE] >>

----------------------------------------------------------------------------
(* The program's state *)

VARIABLES
    tree,            \* state.tree: package.json as written, an object
    packagedFiles,   \* state.packagedFiles: the files that ship, `./`-prefixed
    disk,            \* the files fs.access finds under the package folder
    exports,         \* state.exports
    negatedExports,  \* state.negatedExports
    messages,        \* state.file.messages
    pending,         \* positions in exports whose fs.access is in flight
    negatedIndex,    \* position of the negation pass in negatedExports
    pc,              \* where packageExports stands
    result           \* what packageExports returned

vars ==
    << tree, packagedFiles, disk, exports, negatedExports, messages, pending,
       negatedIndex, pc, result >>

\* 'key' in packageData
HasField(key) == ArrayIncludes(DeclaredKeys(tree.props), key)

\* packageData[key]
Field(key) == PropertyValue(tree.props, key)

\* A string or undefined used as a condition: '' and undefined are falsy.
Truthy(option) == option.def /\ option.v # <<>>

\* The part of State the walk changes, threaded through the operators below;
\* threw records a failed assert.
\* The walk is sequential: a step works on the state the step before it has
\* left.  Always true; TLC computes the state where this is asked and not
\* later, within the steps that follow.
Now(st) == st.threw \in BOOLEAN

StateOf(exports_, negated_, messages_, pending_) ==
    [exports |-> exports_, negatedExports |-> negated_,
     messages |-> messages_, pending |-> pending_, threw |-> FALSE]

\* message(state, reason, options, jsonPath): the reason is kept as the rule
\* and the texts it interpolates; place is the node's position in the source.
\* assert(node) fails when the path leads to no node.
message(st, ruleId, detail, jsonPath) ==
    LET node == IF Len(jsonPath) > 0 THEN findNodeAtLocation(tree, jsonPath)
                ELSE Some(<<>>)
    IN  IF ~node.def THEN [st EXCEPT !.threw = TRUE]
        ELSE [st EXCEPT !.messages =
                Append(@, [ruleId |-> ruleId, detail |-> detail,
                           path |-> jsonPath, place |-> node.v])]

\* new URL(value, state.packageUrl), as the path below the package folder:
\* the leading `./` is dropped.
UrlOf(value) == IF StartsWith(value, sDotSlash) THEN SliceFrom(value, 3) ELSE value

\* addResolved with a slip: only the innermost condition is recorded.
addResolvedInnermost(st, info, extra, specifier, value) ==
    LET innermost == IF info.conditions.def
                     THEN Some(<<info.conditions.v[Len(info.conditions.v)]>>)
                     ELSE Undefined
    IN  IF value.t = "null"
        THEN [st EXCEPT !.negatedExports =
                Append(@, [conditions |-> innermost,
                           jsonPath |-> info.path,
                           jsonPathOrder |-> info.pathOrder,
                           specifier |-> specifier])]
        ELSE
          LET known == extra.definitelyExists
                         \/ ArrayIncludes(packagedFiles, value.s)
              export_ == [conditions |-> innermost,
                          exists |-> known,
                          filePath |-> value.s,
                          globbed |-> ~extra.explicitlyDefined,
                          jsonPath |-> info.path,
                          jsonPathOrder |-> info.pathOrder,
                          specifier |-> specifier,
                          url |-> UrlOf(value.s)]
              at == Len(st.exports) + 1
          IN  [st EXCEPT !.exports = Append(@, export_),
                         !.pending = IF known THEN @ ELSE @ \cup {at}]

\* addResolved(state, info, specifier, value); extra carries definitelyExists
\* and explicitlyDefined.  A null value is [t |-> "null"].
addResolved(st, info, extra, specifier, value) ==
    IF value.t = "null"
    THEN [st EXCEPT !.negatedExports =
            Append(@, [conditions |-> info.conditions,
                       jsonPath |-> info.path,
                       jsonPathOrder |-> info.pathOrder,
                       specifier |-> specifier])]
    ELSE
      LET known == extra.definitelyExists
                     \/ ArrayIncludes(packagedFiles, value.s)
          export_ == [conditions |-> info.conditions,
                      exists |-> known,
                      filePath |-> value.s,
                      globbed |-> ~extra.explicitlyDefined,
                      jsonPath |-> info.path,
                      jsonPathOrder |-> info.pathOrder,
                      specifier |-> specifier,
                      url |-> UrlOf(value.s)]
          at == Len(st.exports) + 1
      IN  [st EXCEPT !.exports = Append(@, export_),
                     !.pending = IF known THEN @ ELSE @ \cup {at}]

Str(s) == [t |-> "str", s |-> s]

Null == [t |-> "null"]

\* addDynamic with a slip: only the first replacement is entered.
addDynamicFirstOnly(st, info, specifier, valueParts) ==
    LET pattern == Join(valueParts, <<"*","*","/","*">>)
        Matches(d) == Minimatch(pattern, d)
        results == SelectSeq(packagedFiles, Matches)
    IN  IF Len(results) = 0
        THEN message(st, "exports-path-wildcard-not-found",
                     <<Join(valueParts, Star)>>, info.path)
        ELSE
          LET found == findWildcardReplacements(valueParts, results)
              replacements == found.results
          IN  IF found.threw THEN [st EXCEPT !.threw = TRUE]
              ELSE IF Len(replacements) = 0 THEN st
              ELSE addResolved(st, info,
                     [definitelyExists |-> TRUE,
                      explicitlyDefined |-> FALSE],
                     specifier[1] \o replacements[1] \o specifier[2],
                     Str(Join(valueParts, replacements[1])))

\* addDynamic with a slip: the specifier keeps its wildcard.
addDynamicKeepsWildcard(st, info, specifier, valueParts) ==
    LET pattern == Join(valueParts, <<"*","*","/","*">>)
        Matches(d) == Minimatch(pattern, d)
        results == SelectSeq(packagedFiles, Matches)
    IN  IF Len(results) = 0
        THEN message(st, "exports-path-wildcard-not-found",
                     <<Join(valueParts, Star)>>, info.path)
        ELSE
          LET found == findWildcardReplacements(valueParts, results)
              replacements == found.results
              RECURSIVE Each(_, _)
              Each(s, i) ==
                  IF i > Len(replacements) THEN s
                  ELSE Each(addResolved(s, info,
                              [definitelyExists |-> TRUE,
                               explicitlyDefined |-> FALSE],
                              specifier[1] \o Star \o specifier[2],
                              Str(Join(valueParts, replacements[i]))),
                            i + 1)
          IN  IF found.threw THEN [st EXCEPT !.threw = TRUE]
              ELSE Each(st, 1)

\* addDynamic with a slip: the entries point to the value as it is written,
\* which is not known to exist.
addDynamicAsWritten(st, info, specifier, valueParts) ==
    LET pattern == Join(valueParts, <<"*","*","/","*">>)
        Matches(d) == Minimatch(pattern, d)
        results == SelectSeq(packagedFiles, Matches)
    IN  IF Len(results) = 0
        THEN message(st, "exports-path-wildcard-not-found",
                     <<Join(valueParts, Star)>>, info.path)
        ELSE
          LET found == findWildcardReplacements(valueParts, results)
              replacements == found.results
              RECURSIVE Each(_, _)
              Each(s, i) ==
                  IF i > Len(replacements) THEN s
                  ELSE Each(addResolved(s, info,
                              [definitelyExists |-> FALSE,
                               explicitlyDefined |-> FALSE],
                              specifier[1] \o replacements[i] \o specifier[2],
                              Str(Join(valueParts, Star))),
                            i + 1)
          IN  IF found.threw THEN [st EXCEPT !.threw = TRUE]
              ELSE Each(st, 1)

\* addDynamic(state, info, specifier, valueParts)
addDynamic(st, info, specifier, valueParts) ==
    LET pattern == Join(valueParts, <<"*","*","/","*">>)
        Matches(d) == Minimatch(pattern, d)
        results == SelectSeq(packagedFiles, Matches)
    IN  IF Len(results) = 0
        THEN message(st, "exports-path-wildcard-not-found",
                     <<Join(valueParts, Star)>>, info.path)
        ELSE
          LET found == findWildcardReplacements(valueParts, results)
              replacements == found.results
              RECURSIVE Each(_, _)
              Each(s, i) ==
                  IF i > Len(replacements) THEN s
                  ELSE Each(addResolved(s, info,
                              [definitelyExists |-> TRUE,
                               explicitlyDefined |-> FALSE],
                              specifier[1] \o replacements[i] \o specifier[2],
                              Str(Join(valueParts, replacements[i]))),
                            i + 1)
          IN  IF found.threw THEN [st EXCEPT !.threw = TRUE]
              ELSE Each(st, 1)

\* addValue(state, info, exportsValue)
addValue(st, info, exportsValue) ==
    IF exportsValue.t \notin {"null", "str"}
    THEN message(st, "exports-value-invalid", <<>>, info.path)
    ELSE IF exportsValue.t = "str" /\ ~StartsWith(exportsValue.s, sDotSlash)
    THEN message(st, "exports-path-unprefixed", <<exportsValue.s>>, info.path)
    ELSE
      LET specifier == IF Truthy(info.specifier) THEN info.specifier.v
                       ELSE sDot
          specifierAsterisk == IndexOf(specifier, Star, 1)
          explicit == [definitelyExists |-> FALSE, explicitlyDefined |-> TRUE]
      IN  IF exportsValue.t = "null" \/ specifierAsterisk = 0
          THEN addResolved(st, info, explicit, specifier, exportsValue)
          ELSE IF IndexOf(specifier, Star, specifierAsterisk + 1) # 0
          THEN message(st, "exports-specifier-wildcard-invalid",
                       <<specifier>>, info.path)
          ELSE IF IndexOf(exportsValue.s, Star, 1) = 0
          THEN addResolved(
                 message(st, "exports-specifier-wildcard-useless",
                         <<specifier, exportsValue.s>>, info.path),
                 info, explicit, specifier, exportsValue)
          ELSE addDynamic(st, info,
                 << Slice(specifier, 1, specifierAsterisk - 1),
                    SliceFrom(specifier, specifierAsterisk + 1) >>,
                 Split(exportsValue.s, Star))

----------------------------------------------------------------------------
(* The walk over the export map *)

\* extname.replace('j', 't')
ReplaceJ(extname) ==
    LET i == IndexOf(extname, <<"j">>, 1)
    IN  IF i = 0 THEN extname
        ELSE Slice(extname, 1, i - 1) \o <<"t">> \o SliceFrom(extname, i + 1)

\* Whether `types` is what TypeScript loads for `default` without it.
TypesVerbose(default, types) ==
    LET all == Split(default, sDot)
        extname == all[Len(all)]
        parts == SubSeq(all, 1, Len(all) - 1)
    IN  /\ extname \in { <<"j","s">>, <<"c","j","s">>, <<"m","j","s">> }
        /\ types = Join(parts \o << <<"d">>, ReplaceJ(extname) >>, sDot)

\* The inner loops of resolveExportsConditions over the exclusivity groups:
\* for each group that holds the condition, one message for the first
\* enclosing condition of that group.
RECURSIVE exclusiveLoop(_, _, _, _)
exclusiveLoop(st, info, condition, g) ==
    IF Now(st) /\ g > Len(mutuallyExclusiveConditions) THEN st
    ELSE
      LET exclusive == mutuallyExclusiveConditions[g]
          others == IF info.conditions.def THEN info.conditions.v ELSE <<>>
          hits == { i \in 1..Len(others) :
                      ArrayIncludes(exclusive.conditions, others[i]) }
      IN  IF ~info.conditions.def
             \/ ~ArrayIncludes(exclusive.conditions, condition)
             \/ hits = {}
          THEN exclusiveLoop(st, info, condition, g + 1)
          ELSE exclusiveLoop(
                 message(st, "exports-conditions-mutually-exclusive",
                         << condition,
                            others[CHOOSE i \in hits : \A j \in hits : i <= j] >>,
                         info.path \o <<Key(condition)>>),
                 info, condition, g + 1)

RECURSIVE resolveExports(_, _, _)
RECURSIVE resolveExportsList(_, _, _)
RECURSIVE resolveExportsObject(_, _, _)
RECURSIVE resolveExportsConditions(_, _, _)
RECURSIVE resolveExportsSpecifiers(_, _, _)
RECURSIVE conditionsLoop(_, _, _, _, _)
RECURSIVE specifiersLoop(_, _, _, _, _)

\* resolveExports(state, info, exportsValue)
resolveExports(st, info, exportsValue) ==
    IF Now(st) /\ exportsValue.t = "arr"
    THEN resolveExportsList(st, info, exportsValue.items)
    ELSE IF exportsValue.t = "obj"
    THEN resolveExportsObject(st, info, exportsValue.props)
    ELSE addValue(st, info, exportsValue)

\* resolveExportsList with a slip: a list of one item is not reported.
resolveExportsListOfSeveral(st, info, items) ==
    IF Len(items) = 0
    THEN message(st, "exports-alternatives-empty", <<>>, info.path)
    ELSE resolveExports(
           IF Len(items) = 1 THEN st
           ELSE message(st, "exports-alternatives", <<>>, info.path),
           [conditions |-> info.conditions,
            path |-> info.path \o <<Index(0)>>,
            pathOrder |-> info.pathOrder \o <<0>>,
            specifier |-> info.specifier],
           items[1])

\* resolveExportsList(state, info, exportsValue)
resolveExportsList(st, info, items) ==
    IF Len(items) = 0
    THEN message(st, "exports-alternatives-empty", <<>>, info.path)
    ELSE resolveExports(
           message(st, "exports-alternatives", <<>>, info.path),
           [conditions |-> info.conditions,
            path |-> info.path \o <<Index(0)>>,
            pathOrder |-> info.pathOrder \o <<0>>,
            specifier |-> info.specifier],
           items[1])

\* resolveExportsObject with a slip: specifiers below a specifier are
\* resolved.
resolveExportsObjectNesting(st, info, props) ==
    LET keys == ObjectKeys(props)
        Dot(key) == StartsWith(key, sDot)
        mixed == \E i, j \in 1..Len(keys) : Dot(keys[i]) # Dot(keys[j])
        dots == Len(keys) # 0 /\ Dot(keys[1])
    IN  CASE Len(keys) = 0 ->
               message(st, "exports-object-empty", <<>>, info.path)
          [] Len(keys) # 0 /\ mixed ->
               message(st, "exports-object-mixed", <<>>, info.path)
          [] Len(keys) # 0 /\ ~mixed /\ dots ->
               resolveExportsSpecifiers(st, info, props)
          [] OTHER -> resolveExportsConditions(st, info, props)

\* resolveExportsObject with a slip: the keys of a mixed object are resolved
\* as what the first key is.
resolveExportsObjectMixing(st, info, props) ==
    LET keys == ObjectKeys(props)
        Dot(key) == StartsWith(key, sDot)
        dots == Len(keys) # 0 /\ Dot(keys[1])
    IN  CASE Len(keys) = 0 ->
               message(st, "exports-object-empty", <<>>, info.path)
          [] Len(keys) # 0 /\ dots /\ Truthy(info.specifier) ->
               message(st, "exports-specifier-nested", keys, info.path)
          [] Len(keys) # 0 /\ dots /\ ~Truthy(info.specifier) ->
               resolveExportsSpecifiers(st, info, props)
          [] OTHER -> resolveExportsConditions(st, info, props)

\* resolveExportsObject(state, info, exportsValue)
resolveExportsObject(st, info, props) ==
    LET keys == ObjectKeys(props)
        Dot(key) == StartsWith(key, sDot)
        mixed == \E i, j \in 1..Len(keys) : Dot(keys[i]) # Dot(keys[j])
        dots == Len(keys) # 0 /\ Dot(keys[1])
    IN  CASE Len(keys) = 0 ->
               message(st, "exports-object-empty", <<>>, info.path)
          [] Len(keys) # 0 /\ mixed ->
               message(st, "exports-object-mixed", <<>>, info.path)
          [] Len(keys) # 0 /\ ~mixed /\ dots /\ Truthy(info.specifier) ->
               message(st, "exports-specifier-nested", keys, info.path)
          [] Len(keys) # 0 /\ ~mixed /\ dots /\ ~Truthy(info.specifier) ->
               resolveExportsSpecifiers(st, info, props)
          [] OTHER -> resolveExportsConditions(st, info, props)

\* The loop of resolveExportsConditions over the keys; index counts from 1.
conditionsLoop(st, info, props, keys, index) ==
    IF Now(st) /\ index > Len(keys) THEN st
    ELSE
      LET condition == keys[index]
          warned == exclusiveLoop(st, info, condition, 1)
          done == resolveExports(warned,
                    [conditions |->
                       IF info.conditions.def
                       THEN Some(info.conditions.v \o <<condition>>)
                       ELSE Some(<<condition>>),
                     path |-> info.path \o <<Key(condition)>>,
                     pathOrder |-> info.pathOrder \o <<index - 1>>,
                     specifier |-> info.specifier],
                    PropertyValue(props, condition))
      IN  conditionsLoop(done, info, props, keys, index + 1)

\* resolveExportsConditions(state, info, exportsValue).  assert(last) fails
\* when the last key is the empty string; the function is async, so the loop
\* has run and what follows the assert is skipped.
resolveExportsConditions(st, info, props) ==
    LET keys == ObjectKeys(props)
        verbose == IF keys = <<sDefault>>
                   THEN message(st, "exports-conditions-verbose", <<>>,
                                info.path)
                   ELSE st
        both == /\ ArrayIncludes(keys, sDefault)
                /\ ArrayIncludes(keys, sTypes)
                /\ PropertyValue(props, sDefault).t = "str"
                /\ PropertyValue(props, sTypes).t = "str"
        typed == IF both /\ TypesVerbose(PropertyValue(props, sDefault).s,
                                         PropertyValue(props, sTypes).s)
                 THEN message(verbose, "exports-types-verbose", <<>>,
                              info.path \o <<Key(sTypes)>>)
                 ELSE verbose
        walked == conditionsLoop(typed, info, props, keys, 1)
        last == keys[Len(keys)]
        hasDefault == ArrayIncludes(keys, sDefault)
        exhaustive ==
            \E g \in 1..Len(mutuallyExclusiveConditions) :
              /\ mutuallyExclusiveConditions[g].exhaustive
              /\ \A d \in Range(mutuallyExclusiveConditions[g].conditions) :
                   ArrayIncludes(keys, d)
    IN  IF Now(walked) /\ last = <<>> THEN [walked EXCEPT !.threw = TRUE]
        ELSE IF hasDefault
        THEN IF last # sDefault
             THEN message(walked, "exports-conditions-default-misplaced",
                          <<>>, info.path \o <<Key(last)>>)
             ELSE walked
        ELSE IF ~exhaustive
        THEN message(walked, "exports-conditions-default-missing",
                     <<IF Truthy(info.specifier) THEN info.specifier.v
                       ELSE sDot>>,
                     info.path)
        ELSE walked

\* The loop of resolveExportsSpecifiers over the keys; index counts from 1.
specifiersLoop(st, info, props, keys, index) ==
    IF Now(st) /\ index > Len(keys) THEN st
    ELSE
      LET specifier == keys[index]
          all == Split(specifier, sDot)
          extension == all[Len(all)]
          rest == Join(SubSeq(all, 1, Len(all) - 1), sDot)
          warned == IF extension # <<>> /\ ~Includes(extension, Slash)
                    THEN message(st, "exports-specifier-extension",
                                 << specifier, extension,
                                    IF ArrayIncludes(keys, rest) THEN <<>>
                                    ELSE rest >>,
                                 info.path)
                    ELSE st
          done == resolveExports(warned,
                    [conditions |-> info.conditions,
                     path |-> info.path \o <<Key(specifier)>>,
                     pathOrder |-> info.pathOrder \o <<index - 1>>,
                     specifier |-> Some(specifier)],
                    PropertyValue(props, specifier))
      IN  specifiersLoop(done, info, props, keys, index + 1)

\* resolveExportsSpecifiers(state, info, exportsValue)
resolveExportsSpecifiers(st, info, props) ==
    LET keys == ObjectKeys(props)
        verbose == IF keys = <<sDot>>
                   THEN message(st, "exports-specifiers-verbose", <<>>,
                                info.path)
                   ELSE st
    IN  specifiersLoop(verbose, info, props, keys, 1)

----------------------------------------------------------------------------
(* Without an export map: `main` and the packaged files *)

Unconditional(path, pathOrder) ==
    [conditions |-> Undefined, path |-> path, pathOrder |-> pathOrder,
     specifier |-> Undefined]

\* The first of the candidates that is packaged, or Undefined.
FirstPackaged(candidates) ==
    LET hits == { i \in 1..Len(candidates) :
                    ArrayIncludes(packagedFiles, candidates[i]) }
    IN  IF hits = {} THEN Undefined
        ELSE Some(candidates[CHOOSE i \in hits : \A j \in hits : i <= j])

\* The end of resolveMainExport: the default main files, then `main-missing`.
inferMain(st, warned) ==
    LET mainFound == FirstPackaged(mainDefaults)
    IN  IF mainFound.def
        THEN addResolved(
               message(st, "main-inferred", <<mainFound.v>>, <<>>),
               Unconditional(<<>>, <<>>),
               [definitelyExists |-> TRUE, explicitlyDefined |-> FALSE],
               sDot, Str(mainFound.v))
        ELSE IF ~warned THEN message(st, "main-missing", <<>>, <<>>)
        ELSE st

\* resolveMainExport with a slip: once `main` resolved through a suffix in a
\* module, the default main files are not tried.
resolveMainExportModuleStops(st) ==
    LET explicit == [definitelyExists |-> TRUE, explicitlyDefined |-> TRUE]
        atMain == Unconditional(<<Key(sMain)>>, <<0>>)
    IN  IF ~HasField(sMain) THEN inferMain(st, FALSE)
        ELSE IF Field(sMain).t # "str"
        THEN inferMain(message(st, "main-invalid", <<>>, <<Key(sMain)>>), TRUE)
        ELSE
          LET main == Field(sMain).s
              normal == IF StartsWith(main, sDotSlash) THEN main
                        ELSE sDotSlash \o main
              options == [i \in 1..Len(mainSuffixes) |->
                            normal \o mainSuffixes[i]]
              resolved == FirstPackaged(options)
              module == HasField(sType) /\ Field(sType) = Str(sModule)
          IN  IF ArrayIncludes(packagedFiles, normal)
              THEN addResolved(
                     message(st, "main", <<normal>>, <<Key(sMain)>>),
                     atMain, explicit, sDot, Str(normal))
              ELSE IF ~resolved.def
              THEN inferMain(
                     message(st, "main-not-found", <<main>>, <<Key(sMain)>>),
                     TRUE)
              ELSE IF module
              THEN message(st, "main-resolve-module",
                           <<main, resolved.v>>, <<Key(sMain)>>)
              ELSE addResolved(
                     message(st, "main-resolve-commonjs",
                             <<main, resolved.v>>, <<Key(sMain)>>),
                     atMain, explicit, sDot, Str(resolved.v))

\* resolveMainExport(state, main, type), with main and type read from the
\* package data.
resolveMainExport(st) ==
    LET explicit == [definitelyExists |-> TRUE, explicitlyDefined |-> TRUE]
        atMain == Unconditional(<<Key(sMain)>>, <<0>>)
    IN  IF ~HasField(sMain) THEN inferMain(st, FALSE)
        ELSE IF Field(sMain).t # "str"
        THEN inferMain(message(st, "main-invalid", <<>>, <<Key(sMain)>>), TRUE)
        ELSE
          LET main == Field(sMain).s
              normal == IF StartsWith(main, sDotSlash) THEN main
                        ELSE sDotSlash \o main
              options == [i \in 1..Len(mainSuffixes) |->
                            normal \o mainSuffixes[i]]
              resolved == FirstPackaged(options)
              module == HasField(sType) /\ Field(sType) = Str(sModule)
          IN  IF ArrayIncludes(packagedFiles, normal)
              THEN addResolved(
                     message(st, "main", <<normal>>, <<Key(sMain)>>),
                     atMain, explicit, sDot, Str(normal))
              ELSE IF ~resolved.def
              THEN inferMain(
                     message(st, "main-not-found", <<main>>, <<Key(sMain)>>),
                     TRUE)
              ELSE IF module
              THEN inferMain(
                     message(st, "main-resolve-module",
                             <<main, resolved.v>>, <<Key(sMain)>>),
                     TRUE)
              ELSE addResolved(
                     message(st, "main-resolve-commonjs",
                             <<main, resolved.v>>, <<Key(sMain)>>),
                     atMain, explicit, sDot, Str(resolved.v))

\* resolvePackagedFiles(state)
RECURSIVE packagedLoop(_, _)
packagedLoop(st, i) ==
    IF i > Len(packagedFiles) THEN st
    ELSE packagedLoop(
           addResolved(st,
             [conditions |-> Undefined, path |-> <<>>, pathOrder |-> <<>>,
              specifier |-> Some(packagedFiles[i])],
             [definitelyExists |-> TRUE, explicitlyDefined |-> FALSE],
             packagedFiles[i], Str(packagedFiles[i])),
           i + 1)

resolvePackagedFiles(st) == packagedLoop(st, 1)

----------------------------------------------------------------------------
(* The passes after the walk *)

\* arrayEquivalent(left, right)
arrayEquivalent(left, right) ==
    /\ Len(left) = Len(right)
    /\ \A i \in 1..Len(left) : ArrayIncludes(right, left[i])

\* The condition of the negation pass: whether the negation removes export_.
Negates(negated, export_) ==
    LET asteriskIndex == IndexOf(negated.specifier, Star, 1)
        head == IF asteriskIndex = 0 THEN negated.specifier
                ELSE Slice(negated.specifier, 1, asteriskIndex - 1)
        tail == SliceFrom(negated.specifier, asteriskIndex + 1)
    IN  /\ IF asteriskIndex = 0 THEN export_.specifier = head
           ELSE /\ StartsWith(export_.specifier, head)
                /\ EndsWith(export_.specifier, tail)
        /\ IF export_.conditions.def /\ negated.conditions.def
           THEN arrayEquivalent(export_.conditions.v, negated.conditions.v)
           ELSE ~export_.conditions.def /\ ~negated.conditions.def

\* The order of the characters under String.prototype.localeCompare, for the
\* characters of the model: punctuation, then digits, then letters.
Collation ==
    << "_", "-", ".", "*", "/",
       "0", "1", "2", "3", "4", "5", "6", "7", "8", "9",
       "a", "b", "c", "d", "e", "f", "g", "h", "i", "j", "k", "l", "m",
       "n", "o", "p", "q", "r", "s", "t", "u", "v", "w", "x", "y", "z" >>

CollationRank(c) == CHOOSE i \in 1..Len(Collation) : Collation[i] = c

\* left.localeCompare(right): negative, zero or positive.
RECURSIVE localeCompare(_, _)
localeCompare(left, right) ==
    IF Len(left) = 0 THEN (IF Len(right) = 0 THEN 0 ELSE -1)
    ELSE IF Len(right) = 0 THEN 1
    ELSE IF left[1] # right[1]
    THEN CollationRank(left[1]) - CollationRank(right[1])
    ELSE localeCompare(Tail(left), Tail(right))

\* order[index] || 0
OrderAt(order, index) == IF index <= Len(order) THEN order[index] ELSE 0

\* compareExport with a slip: the segment count is not compared.
compareExportAlphabetical(left, right) ==
    LET length == IF Len(left.jsonPathOrder) > Len(right.jsonPathOrder)
                  THEN Len(left.jsonPathOrder)
                  ELSE Len(right.jsonPathOrder)
        differs == { i \in 1..length :
                       OrderAt(left.jsonPathOrder, i)
                         # OrderAt(right.jsonPathOrder, i) }
        first == CHOOSE i \in differs : \A j \in differs : i <= j
    IN  IF differs # {}
        THEN OrderAt(left.jsonPathOrder, first)
               - OrderAt(right.jsonPathOrder, first)
        ELSE localeCompare(left.specifier, right.specifier)

\* compareExport with a slip: specifiers of as many segments compare equal.
compareExportNoTieBreak(left, right) ==
    LET length == IF Len(left.jsonPathOrder) > Len(right.jsonPathOrder)
                  THEN Len(left.jsonPathOrder)
                  ELSE Len(right.jsonPathOrder)
        differs == { i \in 1..length :
                       OrderAt(left.jsonPathOrder, i)
                         # OrderAt(right.jsonPathOrder, i) }
        first == CHOOSE i \in differs : \A j \in differs : i <= j
    IN  IF differs # {}
        THEN OrderAt(left.jsonPathOrder, first)
               - OrderAt(right.jsonPathOrder, first)
        ELSE Len(Split(left.specifier, Slash))
               - Len(Split(right.specifier, Slash))

\* compareExport(left, right)
compareExport(left, right) ==
    LET length == IF Len(left.jsonPathOrder) > Len(right.jsonPathOrder)
                  THEN Len(left.jsonPathOrder)
                  ELSE Len(right.jsonPathOrder)
        differs == { i \in 1..length :
                       OrderAt(left.jsonPathOrder, i)
                         # OrderAt(right.jsonPathOrder, i) }
        first == CHOOSE i \in differs : \A j \in differs : i <= j
        segments == Len(Split(left.specifier, Slash))
                      - Len(Split(right.specifier, Slash))
    IN  IF differs # {}
        THEN OrderAt(left.jsonPathOrder, first)
               - OrderAt(right.jsonPathOrder, first)
        ELSE IF segments # 0 THEN segments
        ELSE localeCompare(left.specifier, right.specifier)

\* Array.prototype.sort with compareExport: a stable sort.
RECURSIVE insertExport(_, _)
insertExport(sorted, export_) ==
    IF Len(sorted) = 0 THEN <<export_>>
    ELSE IF compareExport(sorted[Len(sorted)], export_) <= 0
    THEN Append(sorted, export_)
    ELSE Append(insertExport(SubSeq(sorted, 1, Len(sorted) - 1), export_),
                sorted[Len(sorted)])

RECURSIVE sortExports(_)
sortExports(list) ==
    IF Len(list) = 0 THEN <<>>
    ELSE insertExport(sortExports(SubSeq(list, 1, Len(list) - 1)),
                      list[Len(list)])

\* The rules, in the order of their names.
RuleIds ==
    << "exports-alternatives", "exports-alternatives-empty",
       "exports-conditions-default-misplaced",
       "exports-conditions-default-missing",
       "exports-conditions-mutually-exclusive", "exports-conditions-verbose",
       "exports-main-missing", "exports-negated-missing",
       "exports-object-empty", "exports-object-mixed",
       "exports-path-not-found", "exports-path-unprefixed",
       "exports-path-wildcard-not-found", "exports-specifier-extension",
       "exports-specifier-nested", "exports-specifier-wildcard-invalid",
       "exports-specifier-wildcard-useless", "exports-specifiers-verbose",
       "exports-types-verbose", "exports-value-invalid", "files-missing",
       "main", "main-extra", "main-inferred", "main-invalid", "main-missing",
       "main-not-found", "main-resolve-commonjs", "main-resolve-module",
       "name-missing", "npm-ignored", "type-invalid", "type-missing" >>

RuleRank(ruleId) == CHOOSE i \in 1..Len(RuleIds) : RuleIds[i] = ruleId

\* Two places in the source text: the node that starts first comes first, and
\* a node starts before the nodes inside it.
RECURSIVE comparePlace(_, _)
comparePlace(left, right) ==
    IF Len(left) = 0 THEN (IF Len(right) = 0 THEN 0 ELSE -1)
    ELSE IF Len(right) = 0 THEN 1
    ELSE IF left[1] # right[1] THEN left[1] - right[1]
    ELSE comparePlace(Tail(left), Tail(right))

\* The texts of two messages of one rule, compared one after the other.
RECURSIVE compareDetail(_, _)
compareDetail(left, right) ==
    IF Len(left) = 0 THEN (IF Len(right) = 0 THEN 0 ELSE -1)
    ELSE IF Len(right) = 0 THEN 1
    ELSE IF left[1] # right[1] THEN localeCompare(left[1], right[1])
    ELSE compareDetail(Tail(left), Tail(right))

\* compareMessage of vfile-sort: by place, then by rule, then by reason.
compareMessage(left, right) ==
    LET place == comparePlace(left.place, right.place)
        rule == RuleRank(left.ruleId) - RuleRank(right.ruleId)
    IN  IF place # 0 THEN place
        ELSE IF rule # 0 THEN rule
        ELSE compareDetail(left.detail, right.detail)

RECURSIVE insertMessage(_, _)
insertMessage(sorted, m) ==
    IF Len(sorted) = 0 THEN <<m>>
    ELSE IF compareMessage(sorted[Len(sorted)], m) <= 0
    THEN Append(sorted, m)
    ELSE Append(insertMessage(SubSeq(sorted, 1, Len(sorted) - 1), m),
                sorted[Len(sorted)])

\* sortMessages with a slip: the messages stay as they were emitted.
sortMessagesAsEmitted(list) == list

RECURSIVE sortMessages(_)
sortMessages(list) ==
    IF Len(list) = 0 THEN <<>>
    ELSE insertMessage(sortMessages(SubSeq(list, 1, Len(list) - 1)),
                       list[Len(list)])

\* rawExportToExport(raw)
rawExportToExport(raw) ==
    [conditions |-> raw.conditions, exists |-> raw.exists,
     jsonPath |-> raw.jsonPath, specifier |-> raw.specifier, url |-> raw.url]

----------------------------------------------------------------------------
(* packageExports *)

rootInfo ==
    [conditions |-> Undefined, path |-> <<Key(sExports)>>, pathOrder |-> <<0>>,
     specifier |-> Undefined]

\* !packageData.type
TypeFalsy ==
    \/ ~HasField(sType)
    \/ Field(sType).t = "null"
    \/ (Field(sType).t = "str" /\ Field(sType).s = <<>>)

\* The checks of `name`, `type` and `files` at the start of packageExports.
checkFields(st) ==
    LET named == IF HasField(sName) /\ Field(sName).t = "str" THEN st
                 ELSE message(st, "name-missing", <<>>, <<>>)
        typed == IF TypeFalsy
                 THEN message(named, "type-missing", <<>>, <<>>)
                 ELSE IF Field(sType) # Str(sCommonjs)
                         /\ Field(sType) # Str(sModule)
                 THEN message(named, "type-invalid", <<>>, <<Key(sType)>>)
                 ELSE named
    IN  IF HasField(sFiles) THEN typed
        ELSE message(typed, "files-missing", <<>>, <<>>)

\* The step below with a slip: `main` and the packaged files are resolved
\* with an export map too.
StartBothModes ==
    /\ pc = "start"
    /\ LET checked == checkFields(StateOf(<<>>, <<>>, <<>>, {}))
           mapped == IF HasField(sExports)
                     THEN resolveExports(checked, rootInfo, Field(sExports))
                     ELSE checked
           walked == resolvePackagedFiles(resolveMainExport(mapped))
       IN  /\ exports' = walked.exports
           /\ negatedExports' = walked.negatedExports
           /\ messages' = walked.messages
           /\ pending' = walked.pending
           /\ pc' = IF walked.threw THEN "rejected"
                    ELSE IF HasField(sExports) THEN "awaitExports"
                    ELSE "awaitFiles"
    /\ UNCHANGED <<tree, packagedFiles, disk, negatedIndex, result>>

\* packageExports up to its first await on the walk: the fields are checked
\* and the export map is walked (or, without one, `main` and the packaged
\* files are resolved); every fs.access the walk asks for is then in flight.
\* A failed assert rejects the promise packageExports returned.
Start ==
    /\ pc = "start"
    /\ LET checked == checkFields(StateOf(<<>>, <<>>, <<>>, {}))
           walked == IF HasField(sExports)
                     THEN resolveExports(checked, rootInfo, Field(sExports))
                     ELSE resolvePackagedFiles(resolveMainExport(checked))
       IN  /\ exports' = walked.exports
           /\ negatedExports' = walked.negatedExports
           /\ messages' = walked.messages
           /\ pending' = walked.pending
           /\ pc' = IF walked.threw THEN "rejected"
                    ELSE IF HasField(sExports) THEN "awaitExports"
                    ELSE "awaitFiles"
    /\ UNCHANGED <<tree, packagedFiles, disk, negatedIndex, result>>

\* checkExists(state, export_) when fs.access finds the file.
CheckExistsFound(i) ==
    /\ pc = "awaitExports"
    /\ i \in pending
    /\ exports[i].url \in disk
    /\ exports' = [exports EXCEPT ![i].exists = TRUE]
    /\ pending' = pending \ {i}
    /\ UNCHANGED <<tree, packagedFiles, disk, negatedExports, messages,
                   negatedIndex, pc, result>>

\* The step below with a slip: the failure of fs.access is not caught, and
\* rejects the walk.
CheckExistsMissingAborts(i) ==
    /\ pc = "awaitExports"
    /\ i \in pending
    /\ exports[i].url \notin disk
    /\ pc' = "rejected"
    /\ pending' = pending \ {i}
    /\ UNCHANGED <<tree, packagedFiles, disk, exports, negatedExports,
                   messages, negatedIndex, result>>

\* checkExists(state, export_) when fs.access fails.
CheckExistsMissing(i) ==
    /\ pc = "awaitExports"
    /\ i \in pending
    /\ exports[i].url \notin disk
    /\ LET st == message(StateOf(exports, negatedExports, messages, pending),
                         "exports-path-not-found",
                         <<exports[i].filePath, exports[i].specifier>>,
                         exports[i].jsonPath)
       IN  /\ messages' = st.messages
           /\ pc' = IF st.threw THEN "rejected" ELSE pc
    /\ exports' = [exports EXCEPT ![i].exists = FALSE]
    /\ pending' = pending \ {i}
    /\ UNCHANGED <<tree, packagedFiles, disk, negatedExports, negatedIndex,
                   result>>

\* The step below with a slip: it does not wait for the checks in flight.
SettleEarly ==
    /\ pc \in {"awaitExports", "awaitFiles"}
    /\ pc' = IF pc = "awaitExports" THEN "negate" ELSE "ignored"
    /\ UNCHANGED <<tree, packagedFiles, disk, exports, negatedExports,
                   messages, pending, negatedIndex, result>>

\* The awaited promises have settled: packageExports goes on.
Settle ==
    /\ pc \in {"awaitExports", "awaitFiles"}
    /\ pending = {}
    /\ pc' = IF pc = "awaitExports" THEN "negate" ELSE "ignored"
    /\ UNCHANGED <<tree, packagedFiles, disk, exports, negatedExports,
                   messages, pending, negatedIndex, result>>

\* One round of the loop `for (const negated of state.negatedExports)`.
Negate ==
    /\ pc = "negate"
    /\ negatedIndex <= Len(negatedExports)
    /\ LET negated == negatedExports[negatedIndex]
           Kept(export_) == ~Negates(negated, export_)
           found == \E i \in 1..Len(exports) : Negates(negated, exports[i])
           st == IF found
                 THEN StateOf(exports, negatedExports, messages, pending)
                 ELSE message(
                        StateOf(exports, negatedExports, messages, pending),
                        "exports-negated-missing", <<negated.specifier>>,
                        negated.jsonPath)
       IN  /\ exports' = SelectSeq(exports, Kept)
           /\ messages' = st.messages
           /\ pc' = IF st.threw THEN "rejected" ELSE pc
    /\ negatedIndex' = negatedIndex + 1
    /\ UNCHANGED <<tree, packagedFiles, disk, negatedExports, pending, result>>

\* The step below with a slip: an entry that a negation removed still counts
\* as a main specifier.
CheckMainDeclared ==
    /\ pc = "negate"
    /\ negatedIndex > Len(negatedExports)
    /\ LET st0 == StateOf(exports, negatedExports, messages, pending)
           st1 == IF \E record \in Range(exports) \cup Range(negatedExports) :
                        record.specifier = sDot
                  THEN st0
                  ELSE message(st0, "exports-main-missing", <<>>, <<>>)
           st2 == IF HasField(sMain)
                  THEN message(st1, "main-extra", <<>>, <<Key(sMain)>>)
                  ELSE st1
       IN  /\ messages' = st2.messages
           /\ pc' = IF st2.threw THEN "rejected" ELSE "ignored"
    /\ UNCHANGED <<tree, packagedFiles, disk, exports, negatedExports, pending,
                   negatedIndex, result>>

\* After the negation pass: the main specifier and the `main` field.
CheckMain ==
    /\ pc = "negate"
    /\ negatedIndex > Len(negatedExports)
    /\ LET st0 == StateOf(exports, negatedExports, messages, pending)
           st1 == IF \E i \in 1..Len(exports) : exports[i].specifier = sDot
                  THEN st0
                  ELSE message(st0, "exports-main-missing", <<>>, <<>>)
           st2 == IF HasField(sMain)
                  THEN message(st1, "main-extra", <<>>, <<Key(sMain)>>)
                  ELSE st1
       IN  /\ messages' = st2.messages
           /\ pc' = IF st2.threw THEN "rejected" ELSE "ignored"
    /\ UNCHANGED <<tree, packagedFiles, disk, exports, negatedExports, pending,
                   negatedIndex, result>>

\* The loop below with a slip: `exists` is not looked at.
RECURSIVE ignoredLoopAnyway(_, _)
ignoredLoopAnyway(st, i) ==
    IF i > Len(st.exports) THEN st
    ELSE ignoredLoopAnyway(
           IF ~ArrayIncludes(packagedFiles, st.exports[i].filePath)
           THEN message(st, "npm-ignored", <<st.exports[i].filePath>>,
                        st.exports[i].jsonPath)
           ELSE st,
           i + 1)

\* The loop that reports exports which are not packaged.
RECURSIVE ignoredLoop(_, _)
ignoredLoop(st, i) ==
    IF i > Len(st.exports) THEN st
    ELSE ignoredLoop(
           IF st.exports[i].exists
              /\ ~ArrayIncludes(packagedFiles, st.exports[i].filePath)
           THEN message(st, "npm-ignored", <<st.exports[i].filePath>>,
                        st.exports[i].jsonPath)
           ELSE st,
           i + 1)

NpmIgnored ==
    /\ pc = "ignored"
    /\ LET st == ignoredLoop(
                   StateOf(exports, negatedExports, messages, pending), 1)
       IN  /\ messages' = st.messages
           /\ pc' = IF st.threw THEN "rejected" ELSE "sort"
    /\ UNCHANGED <<tree, packagedFiles, disk, exports, negatedExports, pending,
                   negatedIndex, result>>

\* The step below with a slip: the entries of the state are themselves cut
\* down to the fields that are returned.
FinishTrimming ==
    /\ pc = "sort"
    /\ exports' = [i \in 1..Len(exports) |->
                     rawExportToExport(sortExports(exports)[i])]
    /\ messages' = sortMessages(messages)
    /\ result' = Some([exports |-> exports',
                       messages |-> messages',
                       name |-> IF HasField(sName) /\ Field(sName).t = "str"
                                THEN Some(Field(sName).s) ELSE Undefined])
    /\ pc' = "done"
    /\ UNCHANGED <<tree, packagedFiles, disk, negatedExports, pending,
                   negatedIndex>>

\* The two sorts and the return.
Finish ==
    /\ pc = "sort"
    /\ exports' = sortExports(exports)
    /\ messages' = sortMessages(messages)
    /\ result' = Some([exports |-> [i \in 1..Len(exports) |->
                                      rawExportToExport(exports'[i])],
                       messages |-> messages',
                       name |-> IF HasField(sName) /\ Field(sName).t = "str"
                                THEN Some(Field(sName).s) ELSE Undefined])
    /\ pc' = "done"
    /\ UNCHANGED <<tree, packagedFiles, disk, negatedExports, pending,
                   negatedIndex>>

Next ==
    \/ Start
    \/ \E i \in 1..Len(exports) : CheckExistsFound(i)
    \/ \E i \in 1..Len(exports) : CheckExistsMissing(i)
    \/ Settle
    \/ Negate
    \/ CheckMain
    \/ NpmIgnored
    \/ Finish

----------------------------------------------------------------------------
(* The packages checked *)

\* How many of OptionalFiles a package may ship.
MaxFiles == 1

fPackageJson == <<".","/","p","a","c","k","a","g","e",".","j","s","o","n">>

fX == <<".","/","x",".","j","s">>

fM == <<".","/","m",".","j","s">>

OptionalFiles ==
    << <<".","/","l","i","b","/","a",".","j","s">>,
       <<".","/","l","i","b","/","b","/","c",".","j","s">> >>

Obj(props) == [t |-> "obj", props |-> props]

Arr(items) == [t |-> "arr", items |-> items]

Num == [t |-> "num"]

Obj1(k, v) == Obj(<< <<k, v>> >>)

Obj2(k1, v1, k2, v2) == Obj(<< <<k1, v1>>, <<k2, v2>> >>)

DistinctPairs(K) == { p \in K \X K : p[1] # p[2] }

\* Objects of one or two distinct keys of K with values of V.
Flat(K, V) ==
    { Obj1(k, v) : k \in K, v \in V }
      \cup { Obj2(p[1], v1, p[2], v2) :
               p \in DistinctPairs(K), v1 \in V, v2 \in V }

SpecifierKeys == { <<".">>, <<".","/","a">>, <<".","/","*">> }

ConditionKeys == { <<"i","m","p","o","r","t">>, sDefault, <<"0">>, <<>> }

PlainLeaves == { Str(fX), Str(fM), Null }

Leaves == PlainLeaves \cup { Str(<<".","/","*">>) }

\* The values of `exports`.
ExportMaps ==
    Leaves
      \cup Flat(SpecifierKeys, Leaves)
      \cup Flat(ConditionKeys, Leaves)
      \cup { Obj1(k, v) : k \in ConditionKeys \cup SpecifierKeys,
                          v \in Flat(ConditionKeys, PlainLeaves) }
      \cup { Obj2(c[1], Obj1(k1, v1), c[2], Obj1(k2, v2)) :
               c \in DistinctPairs({ <<"i","m","p","o","r","t">>, sDefault }),
               k1 \in { <<"i","m","p","o","r","t">>, sDefault }, k2 \in { <<"i","m","p","o","r","t">>, sDefault },
               v1 \in PlainLeaves, v2 \in PlainLeaves }
      \cup { Obj2(c[1], Obj1(k, v1), c[2], Obj1(k, v2)) :
               c \in DistinctPairs({ <<"i","m","p","o","r","t">>, sDefault }),
               k \in SpecifierKeys, v1 \in Leaves, v2 \in Leaves }
      \cup { Arr(<<>>), Obj(<<>>), Num, Str(<<"x",".","j","s">>) }
      \cup { Arr(<<v>>) : v \in Leaves }
      \cup { Obj1(<<".","a">>, v) : v \in PlainLeaves }
      \cup { Obj2(<<".">>, v1, <<"i","m","p","o","r","t">>, v2) :
               v1 \in PlainLeaves, v2 \in PlainLeaves }

\* package.json with an export map.
WithExports(value) ==
    Obj(<< <<sName, Str(<<"x">>)>>, <<sType, Str(sModule)>>,
           <<sExports, value>>, <<sFiles, Arr(<<>>)>> >>)

\* package.json without one: `main` is absent or has the given value.
WithMain(type, main) ==
    Obj(<< <<sName, Str(<<"x">>)>>, <<sType, Str(type)>> >>
        \o (IF main.def THEN << <<sMain, main.v>> >> ELSE <<>>)
        \o << <<sFiles, Arr(<<>>)>> >>)

MainValues ==
    { Undefined, Some(Str(<<"x",".","j","s">>)), Some(Str(<<".","/","x",".","j","s">>)), Some(Str(<<"x">>)),
      Some(Str(<<"y">>)), Some(Num) }

Packages ==
    { WithExports(value) : value \in ExportMaps }
      \cup { WithMain(type, main) :
               type \in {sModule, sCommonjs}, main \in MainValues }
      \cup { Obj(<< <<sExports, Str(fX)>>, <<sMain, Str(fX)>> >>) }

\* npm-packlist lists package.json and x.js and some of the optional files,
\* in one of two orders; pathToPosixPath has prefixed each with `./`.
Reverse(list) == [i \in 1..Len(list) |-> list[Len(list) + 1 - i]]

PackedLists ==
    LET optional == { OptionalFiles[i] : i \in 1..MaxFiles }
        Listed(chosen) ==
            << fPackageJson >>
              \o SelectSeq(OptionalFiles, LAMBDA f : f \in chosen)
              \o << fX >>
    IN  { Listed(chosen) : chosen \in SUBSET optional }
          \cup { Reverse(Listed(chosen)) : chosen \in SUBSET optional }

\* Files that are on disk but are not packaged.
IgnoredFiles == { UrlOf(fM) }

\* How many of WildcardFiles a package with a wildcard map may ship.
MaxShipped == 3

WildcardFiles ==
    << <<".","/","l","i","b","/","a",".","j","s">>, <<".","/","l","i","b","/","b",".","j","s">>, <<".","/","a","/","a",".","j","s">>, <<".","/","l","i","b","/","b","/","c",".","j","s">> >>

\* Export maps of one wildcard specifier, with a value of one or two
\* wildcards, bare or below a condition.
WildcardValues ==
    { Str(<<".","/","l","i","b","/","*">>), Str(<<".","/","l","i","b","/","*",".","j","s">>), Str(<<".","/","*","/","*",".","j","s">>),
      Str(<<".","/","*","/","c",".","j","s">>) }

WildcardMaps ==
    { Obj1(k, v) : k \in { <<".","/","*">>, <<".","/","f","/","*",".","j","s">> }, v \in WildcardValues }
      \cup { Obj1(<<".","/","*">>, Obj1(<<"i","m","p","o","r","t">>, v)) : v \in WildcardValues }
      \cup { Obj2(sDot, Str(fX), <<".","/","*">>, v) : v \in WildcardValues }

WildcardLists ==
    LET optional == { WildcardFiles[i] :
                        i \in 1..(IF MaxShipped < Len(WildcardFiles)
                                  THEN MaxShipped ELSE Len(WildcardFiles)) }
        Listed(chosen) ==
            << fPackageJson >>
              \o SelectSeq(WildcardFiles, LAMBDA f : f \in chosen)
    IN  { Listed(chosen) : chosen \in SUBSET optional }
          \cup { Reverse(Listed(chosen)) : chosen \in SUBSET optional }

\* Condition names of the mutually exclusive groups.
GroupKeys ==
    { <<"i","m","p","o","r","t">>, <<"r","e","q","u","i","r","e">>, <<"n","o","d","e">>, <<"n","o","d","e","-","a","d","d","o","n","s">>, <<"b","r","o","w","s","e","r">> }

RuntimeKeys == mutuallyExclusiveConditions[4].conditions

\* Export maps of conditions: nested two and three deep, side by side, in
\* every order around `default`, and all of the runtime group.
ConditionMaps ==
    { Obj1(k1, Obj1(k2, Str(fX))) : k1 \in GroupKeys, k2 \in GroupKeys }
      \cup { Obj1(k1, Obj1(k2, Obj1(k3, Str(fX)))) :
               k1 \in { <<"n","o","d","e">>, <<"n","o","d","e","-","a","d","d","o","n","s">>, <<"b","r","o","w","s","e","r">> },
               k2 \in { <<"n","o","d","e">>, <<"n","o","d","e","-","a","d","d","o","n","s">>, <<"b","r","o","w","s","e","r">> },
               k3 \in { <<"n","o","d","e">>, <<"i","m","p","o","r","t">> } }
      \cup { Obj2(p[1], Str(fX), p[2], Str(fX)) :
               p \in DistinctPairs(GroupKeys
                       \cup { sDefault, <<"d","e","v","e","l","o","p","m","e","n","t">>, <<"p","r","o","d","u","c","t","i","o","n">> }) }
      \cup { Obj(<< <<p[1], Str(fX)>>, <<p[2], Str(fX)>>,
                    <<p[3], Str(fX)>> >>) :
               p \in { q \in { <<"i","m","p","o","r","t">>, <<"r","e","q","u","i","r","e">>, sDefault }
                               \X { <<"i","m","p","o","r","t">>, <<"r","e","q","u","i","r","e">>, sDefault }
                               \X { <<"i","m","p","o","r","t">>, <<"r","e","q","u","i","r","e">>, sDefault } :
                         q[1] # q[2] /\ q[1] # q[3] /\ q[2] # q[3] } }
      \cup { Obj([i \in 1..Len(RuntimeKeys) |-> <<RuntimeKeys[i], Str(fX)>>]) }

\* Export maps of arrays: several items, arrays in arrays, arrays below a
\* specifier or a condition.
ArrayItems ==
    { Str(fX), Str(fM), Null, Num, Arr(<<>>), Arr(<<Str(fX), Null>>),
      Obj1(<<"i","m","p","o","r","t">>, Str(fX)), Obj1(sDot, Str(fX)), Obj(<<>>) }

ArrayMaps ==
    { Arr(<<v1, v2>>) : v1 \in ArrayItems, v2 \in ArrayItems }
      \cup { Arr(<<v1, v2, v3>>) :
               v1 \in { Str(fX), Null }, v2 \in { Str(fM), Null },
               v3 \in { Num, Obj(<<>>) } }
      \cup { Obj1(k, Arr(<<v1, v2>>)) :
               k \in { <<".","/","a">>, <<"i","m","p","o","r","t">> },
               v1 \in { Str(fX), Null, Arr(<<Str(fX)>>) },
               v2 \in { Str(fM), Null, Obj1(<<".","/","b">>, Str(fX)) } }

\* Export maps of objects below a specifier: specifiers again, directly or
\* below conditions and arrays, and objects of mixed keys at any level.
Mixed(v1, v2) == Obj2(sDot, v1, <<"i","m","p","o","r","t">>, v2)

NestedMaps ==
    LET inner == Flat({ sDot, <<".","/","b">> }, { Str(fX), Null, Arr(<<>>) })
    IN  { Obj1(<<".","/","a">>, v) : v \in inner }
          \cup { Obj1(<<".","/","a">>, Obj1(<<"i","m","p","o","r","t">>, v)) : v \in inner }
          \cup { Obj1(<<".","/","a">>, Arr(<<v>>)) : v \in inner }
          \cup { Obj2(<<"i","m","p","o","r","t">>, Obj1(<<"r","e","q","u","i","r","e">>, v1),
                      <<"r","e","q","u","i","r","e">>, Obj1(<<"i","m","p","o","r","t">>, v2)) :
                   v1 \in { Str(fX), Null }, v2 \in { Str(fX), Null } }
          \cup { Obj1(<<".","/","a">>, Obj1(c1, Arr(<<Obj1(c2, v)>>))) :
                   c1 \in { <<"i","m","p","o","r","t">>, <<"r","e","q","u","i","r","e">> },
                   c2 \in { <<"n","o","d","e">>, sDefault },
                   v \in { Str(fX), Null } }
          \cup { Obj1(<<"i","m","p","o","r","t">>, Obj1(<<".","/","a">>, Obj1(sDefault, v))) :
                   v \in inner }
          \cup { Obj1(k, Mixed(v1, v2)) :
                   k \in { <<".","/","a">>, <<"i","m","p","o","r","t">> },
                   v1 \in { Str(fX), Null, Arr(<<>>), Num },
                   v2 \in { Str(fM), Null, Obj(<<>>) } }
          \cup { Obj2(<<"i","m","p","o","r","t">>, v1, <<".","/","a">>, v2) :
                   v1 \in { Str(fX), Null, Arr(<<>>), Num },
                   v2 \in { Str(fM), Null, Obj(<<>>) } }

\* Export maps of an entry and a wildcard negation whose prefix and suffix
\* fit the entry's specifier apart, together, or only by sharing characters.
OverlapMaps ==
    { Obj2(k, Str(fX), n, Null) :
        k \in { <<".","/","a">>, <<".","/","a","a">>, <<".","/","a","b","a">>, <<".","/","b">> },
        n \in { <<".","/","a","*","a">>, <<".","/","*","a">>, <<".","/","a","*">>, <<".","/","*">> } }
      \cup { Obj2(n, Null, k, Str(fX)) :
               k \in { <<".","/","a">>, <<".","/","a","a">> }, n \in { <<".","/","a","*","a">>, <<".","/","*","/","a">> } }

ShapeMaps == ConditionMaps \cup ArrayMaps \cup NestedMaps \cup OverlapMaps

\* Packages without an export map, with files that `main` resolves to as it
\* is, through a suffix, or not at all, and with default main files.
MainFiles ==
    << <<".","/","x",".","j","s">>, <<".","/","i","n","d","e","x",".","j","s">>, <<".","/","i","n","d","e","x",".","j","s","o","n">>, <<".","/","x","/","i","n","d","e","x",".","j","s">> >>

MainPackages ==
    { WithMain(type, main) :
        type \in { sModule, sCommonjs },
        main \in MainValues
                   \cup { Some(Str(<<"i","n","d","e","x">>)), Some(Str(<<".","/","i","n","d","e","x",".","j","s","o","n">>)),
                          Some(Null), Some(Str(<<>>)) } }
      \cup { Obj(<< <<sMain, Str(<<"x">>)>> >>), Obj(<<>>) }

MainLists ==
    LET Listed(chosen) ==
            << fPackageJson >> \o SelectSeq(MainFiles, LAMBDA f : f \in chosen)
    IN  { Listed(chosen) : chosen \in SUBSET Range(MainFiles) }
          \cup { Reverse(Listed(chosen)) : chosen \in SUBSET Range(MainFiles) }

\* Export maps of three specifiers whose files are packaged, left out of the
\* package but on disk, or nowhere, so that several checks are in flight.
fN == <<".","/","n",".","j","s">>

CheckedMaps ==
    LET values == { Str(fX), Str(fM), Str(fN), Null }
    IN  { Obj(<< <<sDot, v1>>, <<<<".","/","a">>, v2>>, <<<<".","/","*">>, v3>> >>) :
            v1 \in values, v2 \in values, v3 \in values }

\* The packages with their files: every package above with a short list of
\* files, the wildcard maps with longer lists, the maps of shapes with
\* package.json and x.js alone, the packages without a map with the main
\* files, and the maps of three specifiers with files off the package.
Init ==
    /\ \/ /\ tree \in Packages
          /\ packagedFiles \in PackedLists
          /\ disk \in { { UrlOf(packagedFiles[i]) :
                            i \in 1..Len(packagedFiles) }
                          \cup ignored : ignored \in SUBSET IgnoredFiles }
       \/ /\ tree \in { WithExports(value) : value \in WildcardMaps }
          /\ packagedFiles \in WildcardLists
          /\ disk = { UrlOf(packagedFiles[i]) : i \in 1..Len(packagedFiles) }
       \/ /\ tree \in { WithExports(value) : value \in ShapeMaps }
          /\ packagedFiles = << fPackageJson, fX >>
          /\ disk = { UrlOf(fPackageJson), UrlOf(fX) }
       \/ /\ tree \in MainPackages
          /\ packagedFiles \in MainLists
          /\ disk = { UrlOf(packagedFiles[i]) : i \in 1..Len(packagedFiles) }
       \/ /\ tree \in { WithExports(value) : value \in CheckedMaps }
          /\ packagedFiles = << fPackageJson, fX >>
          /\ disk \in { { UrlOf(fPackageJson), UrlOf(fX) } \cup ignored :
                          ignored \in SUBSET { UrlOf(fM), UrlOf(fN) } }
    /\ exports = <<>>
    /\ negatedExports = <<>>
    /\ messages = <<>>
    /\ pending = {}
    /\ negatedIndex = 1
    /\ pc = "start"
    /\ result = Undefined

Spec == Init /\ [][Next]_vars

----------------------------------------------------------------------------
(* Properties *)

\* The exports a finished run returns are `exports` at "done"; `result`
\* holds them without jsonPathOrder.
Returned == pc = "done"

\* How many messages of a rule sit at a path with the given texts.
CountMessages(ruleId, detail, jsonPath) ==
    Cardinality({ i \in 1..Len(messages) :
                    /\ messages[i].ruleId = ruleId
                    /\ messages[i].detail = detail
                    /\ messages[i].path = jsonPath })

Shipped(export_) == ArrayIncludes(packagedFiles, export_.filePath)

\* C1: whatever the export map, packageExports runs to its return: no
\* assertion fails, the promise is never rejected.
C1_NeverRejects == pc # "rejected"

\* C2, as stated: the specifier of every entry is `.` or starts with `./`,
\* and holds no `*`.
C2_SpecifiersConcrete ==
    \A i \in 1..Len(exports) :
        /\ exports[i].specifier = sDot
             \/ StartsWith(exports[i].specifier, sDotSlash)
        /\ ~Includes(exports[i].specifier, Star)

\* C2, amended: the specifier of every entry starts with `.`; it holds a `*`
\* only when the entry is not expanded from a wildcard, its specifier is a
\* declared key with a single `*`, and its value was reported as
\* exports-specifier-wildcard-useless (no shipped file name holding a `*`).
C2_SpecifiersDeclared ==
    \A i \in 1..Len(exports) :
        LET export_ == exports[i]
            path == export_.jsonPath
        IN  /\ StartsWith(export_.specifier, sDot)
            /\ Includes(export_.specifier, Star)
                 => /\ ~export_.globbed
                    /\ Len(Split(export_.specifier, Star)) = 2
                    /\ \E k \in 1..Len(path) :
                           path[k] = Key(export_.specifier)
                    /\ CountMessages("exports-specifier-wildcard-useless",
                                     <<export_.specifier, export_.filePath>>,
                                     path) = 1

\* C2, witness: a returned entry keeps the `*` of a useless wildcard next to
\* entries expanded from a wildcard.
C2_UselessWildcardReturned ==
    /\ Returned
    /\ \E i \in 1..Len(exports) : Includes(exports[i].specifier, Star)

\* The match of a negation as the specification words it: the specifiers
\* match, and the conditions are both absent or hold the same set of names.
SameConditionSet(left, right) ==
    IF left.def /\ right.def THEN Range(left.v) = Range(right.v)
    ELSE ~left.def /\ ~right.def

SpecifierMatches(negated, export_) ==
    LET asteriskIndex == IndexOf(negated.specifier, Star, 1)
    IN  IF asteriskIndex = 0 THEN export_.specifier = negated.specifier
        ELSE /\ StartsWith(export_.specifier,
                           Slice(negated.specifier, 1, asteriskIndex - 1))
             /\ EndsWith(export_.specifier,
                         SliceFrom(negated.specifier, asteriskIndex + 1))

SignatureMatches(negated, export_) ==
    /\ SpecifierMatches(negated, export_)
    /\ SameConditionSet(negated.conditions, export_.conditions)

\* A step of the negation pass.
NegateStep ==
    /\ pc = "negate"
    /\ negatedIndex <= Len(negatedExports)
    /\ negatedIndex' = negatedIndex + 1

\* C3: a negation removes exactly the entries whose specifier matches and
\* whose conditions are both absent or the same set of names; every other
\* entry stays.
C3_RemovesExactlyTheMatches ==
    [][NegateStep =>
         LET negated == negatedExports[negatedIndex]
             Stays(export_) == ~SignatureMatches(negated, export_)
         IN  exports' = SelectSeq(exports, Stays)]_vars

\* C4: a negation whose signature matches no entry adds one
\* exports-negated-missing at its own path and removes nothing; one that
\* matches an entry adds no message.
C4_MissingIffNoMatch ==
    [][NegateStep =>
         LET negated == negatedExports[negatedIndex]
             matched == \E i \in 1..Len(exports) :
                           SignatureMatches(negated, exports[i])
         IN  IF matched THEN messages' = messages
             ELSE /\ exports' = exports
                  /\ Len(messages') = Len(messages) + 1
                  /\ messages'[Len(messages')].ruleId
                       = "exports-negated-missing"
                  /\ messages'[Len(messages')].path = negated.jsonPath]_vars

\* C5: a negation stays in its own branch: every entry it removes has its
\* set of conditions, so none comes from a branch of other conditions and
\* none is unconditional when the negation is conditional; when no entry of
\* its own branch matches, it is reported as exports-negated-missing.
C5_RemovesWithinBranch ==
    [][NegateStep =>
         LET negated == negatedExports[negatedIndex]
             own == { i \in 1..Len(exports) :
                        SameConditionSet(negated.conditions,
                                         exports[i].conditions) }
         IN  /\ \A i \in 1..Len(exports) :
                    ~ArrayIncludes(exports', exports[i]) => i \in own
             /\ (\A i \in own : ~SpecifierMatches(negated, exports[i]))
                  => /\ Len(messages') = Len(messages) + 1
                     /\ messages'[Len(messages')].ruleId
                          = "exports-negated-missing"]_vars


\* C6, as stated: every returned entry whose file is not shipped has one
\* npm-ignored message at its path, whether or not the file exists.
C6_IgnoredWheneverNotShipped ==
    Returned =>
        \A i \in 1..Len(exports) :
            ~Shipped(exports[i])
              => CountMessages("npm-ignored", <<exports[i].filePath>>,
                               exports[i].jsonPath) = 1

\* C6, amended: a returned entry has one npm-ignored message at its path
\* when its file exists and is not shipped, and none otherwise; an entry
\* whose file does not exist is not reported as npm-ignored.
C6_IgnoredWhenExistsAndNotShipped ==
    Returned =>
        /\ \A i \in 1..Len(exports) :
               CountMessages("npm-ignored", <<exports[i].filePath>>,
                             exports[i].jsonPath)
                 = IF exports[i].exists /\ ~Shipped(exports[i]) THEN 1 ELSE 0
        /\ \A k \in 1..Len(messages) :
               messages[k].ruleId = "npm-ignored"
                 => \E i \in 1..Len(exports) :
                        /\ exports[i].jsonPath = messages[k].path
                        /\ <<exports[i].filePath>> = messages[k].detail

\* C6, witness: a returned entry whose file exists and is not shipped, with
\* its npm-ignored message.
C6_ExistingIgnoredReturned ==
    /\ Returned
    /\ \E i \in 1..Len(exports) :
           /\ exports[i].exists
           /\ ~Shipped(exports[i])
           /\ CountMessages("npm-ignored", <<exports[i].filePath>>,
                            exports[i].jsonPath) = 1

\* C7: every exports-path-not-found message of the result belongs to a
\* returned entry with exists = false; an entry a negation removed leaves
\* none behind.
C7_NotFoundOnlyForReturned ==
    Returned =>
        \A k \in 1..Len(messages) :
            messages[k].ruleId = "exports-path-not-found"
              => \E i \in 1..Len(exports) :
                     /\ exports[i].jsonPath = messages[k].path
                     /\ ~exports[i].exists

\* The order of two pathOrder sequences where a proper prefix comes first.
RECURSIVE prefixFirst(_, _)
prefixFirst(left, right) ==
    IF Len(left) = 0 THEN (IF Len(right) = 0 THEN 0 ELSE -1)
    ELSE IF Len(right) = 0 THEN 1
    ELSE IF Head(left) # Head(right) THEN Head(left) - Head(right)
    ELSE prefixFirst(Tail(left), Tail(right))

Segments(specifier) == Len(Split(specifier, Slash))

\* C8, as stated: the returned entries ascend by pathOrder, a proper prefix
\* before its extensions, then by the number of segments of the specifier,
\* then by the specifier.
C8_SortedPrefixFirst ==
    Returned =>
        \A i, j \in 1..Len(exports) :
            i < j =>
              LET byOrder == prefixFirst(exports[i].jsonPathOrder,
                                         exports[j].jsonPathOrder)
                  bySegments == Segments(exports[i].specifier)
                                  - Segments(exports[j].specifier)
              IN  \/ byOrder < 0
                  \/ byOrder = 0 /\ bySegments < 0
                  \/ /\ byOrder = 0
                     /\ bySegments = 0
                     /\ localeCompare(exports[i].specifier,
                                      exports[j].specifier) <= 0

\* C8, amended: the returned entries ascend by pathOrder compared position
\* by position with a missing position counting as 0 (a sequence ties with
\* its extension by zeros), then by the number of segments of the specifier,
\* then by the specifier.
C8_SortedZeroPadded ==
    Returned =>
        \A i, j \in 1..Len(exports) :
            i < j =>
              LET left == exports[i].jsonPathOrder
                  right == exports[j].jsonPathOrder
                  At(order, k) == IF k <= Len(order) THEN order[k] ELSE 0
                  positions == 1..(Len(left) + Len(right))
                  bySegments == Segments(exports[i].specifier)
                                  - Segments(exports[j].specifier)
                  tied == \A k \in positions : At(left, k) = At(right, k)
              IN  \/ \E k \in positions :
                         /\ At(left, k) < At(right, k)
                         /\ \A h \in 1..(k - 1) : At(left, h) = At(right, h)
                  \/ tied /\ bySegments < 0
                  \/ /\ tied
                     /\ bySegments = 0
                     /\ localeCompare(exports[i].specifier,
                                      exports[j].specifier) <= 0

\* C8, witness: the main entry, of pathOrder [0], is returned before the
\* entries of the shipped files, of pathOrder [], one of them with more
\* segments than another.
C8_MainBeforeFiles ==
    /\ Returned
    /\ Len(exports) >= 3
    /\ exports[1].jsonPathOrder = <<0>>
    /\ exports[2].jsonPathOrder = <<>>
    /\ \E i, j \in 1..Len(exports) :
           /\ exports[i].jsonPathOrder = exports[j].jsonPathOrder
           /\ Segments(exports[i].specifier) < Segments(exports[j].specifier)

\* The comparator's sign.
Sign(n) == IF n < 0 THEN -1 ELSE IF n > 0 THEN 1 ELSE 0

\* C9: the returned entries ascend strictly under compareExport, which
\* orders the entries of the result consistently (antisymmetric and
\* transitive, equal only for an entry and itself), and sorting them again
\* changes nothing.
C9_StrictlySortedAndStable ==
    Returned =>
        /\ \A i, j \in 1..Len(exports) :
               /\ i < j => compareExport(exports[i], exports[j]) < 0
               /\ Sign(compareExport(exports[i], exports[j]))
                    = 0 - Sign(compareExport(exports[j], exports[i]))
        /\ \A i, j, k \in 1..Len(exports) :
               /\ compareExport(exports[i], exports[j]) < 0
               /\ compareExport(exports[j], exports[k]) < 0
               => compareExport(exports[i], exports[k]) < 0
        /\ sortExports(exports) = exports

\* C9, witness: a result of three or more entries, two of them apart only
\* by their specifiers.
C9_SeveralReturned ==
    /\ Returned
    /\ Len(exports) >= 3
    /\ \E i, j \in 1..Len(exports) :
           /\ i # j
           /\ exports[i].jsonPathOrder = exports[j].jsonPathOrder
           /\ Segments(exports[i].specifier) = Segments(exports[j].specifier)

\* The declaration positions along a path below `exports`, counted from 0.
DeclaredOrder(jsonPath) ==
    LET place == findNodeAtLocation(tree, jsonPath).v
    IN  [k \in 1..Len(jsonPath) |-> IF k = 1 THEN 0 ELSE place[k] - 1]

\* C10: in a finished run over an export map, the pathOrder of every entry
\* and negation holds, level by level, the position at which its key is
\* declared in the source.
C10_OrderIsDeclarationOrder ==
    Returned /\ HasField(sExports) =>
        /\ \A i \in 1..Len(exports) :
               exports[i].jsonPathOrder = DeclaredOrder(exports[i].jsonPath)
        /\ \A i \in 1..Len(negatedExports) :
               negatedExports[i].jsonPathOrder
                 = DeclaredOrder(negatedExports[i].jsonPath)


\* The JSON value at a path of the tree.
RECURSIVE ValueAt(_, _)
ValueAt(node, path) ==
    IF Len(path) = 0 THEN node
    ELSE IF IsKey(path[1])
    THEN ValueAt(PropertyValue(node.props, path[1].key), Tail(path))
    ELSE ValueAt(node.items[path[1].idx + 1], Tail(path))

\* The texts a string holds, the empty one included.
Substrings(s) ==
    { SubSeq(s, i, j) : i \in 1..(Len(s) + 1), j \in 0..Len(s) }

\* The specifier keys along a path.
SpecifierKeysOn(path) ==
    { path[k].key : k \in { h \in 1..Len(path) :
                              IsKey(path[h]) /\ StartsWith(path[h].key, sDot) } }

\* C11: every entry expanded from a wildcard has a replacement that, put
\* for every `*` of the value as written, gives the entry's file and, put for
\* the `*` of the specifier key, gives the entry's specifier; the file is one
\* of the shipped files and the entry is marked existing.
C11_WildcardRoundTrip ==
    HasField(sExports) =>
        \A i \in 1..Len(exports) :
            exports[i].globbed =>
              LET export_ == exports[i]
                  value == ValueAt(tree, export_.jsonPath)
                  keys == SpecifierKeysOn(export_.jsonPath)
              IN  /\ value.t = "str"
                  /\ Cardinality(keys) = 1
                  /\ export_.exists
                  /\ ArrayIncludes(packagedFiles, export_.filePath)
                  /\ \E replacement \in Substrings(export_.filePath) :
                         /\ Join(Split(value.s, Star), replacement)
                              = export_.filePath
                         /\ \A key \in keys :
                                Join(Split(key, Star), replacement)
                                  = export_.specifier

\* C11, witness: a returned entry expanded from a value of two wildcards,
\* next to shipped files the pattern matches without a common replacement.
C11_TwoWildcardsExpanded ==
    /\ Returned
    /\ HasField(sExports)
    /\ \E i \in 1..Len(exports) :
           /\ exports[i].globbed
           /\ Len(Split(ValueAt(tree, exports[i].jsonPath).s, Star)) = 3
    /\ Len(packagedFiles) > Len(exports) + 1


\* The example: the export map {"./*": "./lib/*"} of a package that ships
\* lib/a.js and lib/b.js next to its package.json, in a finished run.
C12_Example ==
    /\ Returned
    /\ tree = WithExports(Obj1(<<".","/","*">>, Str(<<".","/","l","i","b","/","*">>)))
    /\ Range(packagedFiles) = { fPackageJson, <<".","/","l","i","b","/","a",".","j","s">>, <<".","/","l","i","b","/","b",".","j","s">> }

Specifiers == { exports[i].specifier : i \in 1..Len(exports) }

\* C12, as stated: the example returns exactly two entries, of specifiers
\* `./a` and `./b`, and one exports-main-missing.
C12_TwoEntriesWithoutExtension ==
    C12_Example =>
        /\ Len(exports) = 2
        /\ Specifiers = { <<".","/","a">>, <<".","/","b">> }
        /\ CountMessages("exports-main-missing", <<>>, <<>>) = 1

\* C12, amended: the example returns exactly two entries, of specifiers
\* `./a.js` and `./b.js` in that order (the `*` stands for all of the file
\* name below lib/, extension included), for lib/a.js and lib/b.js, and one
\* exports-main-missing as its only message.
C12_TwoEntriesWithExtension ==
    C12_Example =>
        /\ Len(exports) = 2
        /\ exports[1].specifier = <<".","/","a",".","j","s">>
        /\ exports[1].filePath = <<".","/","l","i","b","/","a",".","j","s">>
        /\ exports[2].specifier = <<".","/","b",".","j","s">>
        /\ exports[2].filePath = <<".","/","l","i","b","/","b",".","j","s">>
        /\ CountMessages("exports-main-missing", <<>>, <<>>) = 1
        /\ Len(messages) = 1

\* C12, witness: the example has run to its return, with entries.
C12_ExampleReturned == C12_Example /\ Len(exports) > 0


\* The values of the export map the walk reaches, as the specification
\* describes the walk: the first item of an array; the values of an object
\* of specifiers where no specifier is chosen yet, with the key as the
\* specifier; the values of an object of conditions, with the key added to
\* the conditions.  Each with its path, specifier and conditions.
IsDot(key) == StartsWith(key, sDot)

IsMixed(value) ==
    \E i, j \in 1..Len(value.props) :
        IsDot(value.props[i][1]) # IsDot(value.props[j][1])

IsSpecifiers(value) ==
    /\ value.t = "obj"
    /\ Len(value.props) > 0
    /\ \A i \in 1..Len(value.props) : IsDot(value.props[i][1])

IsConditions(value) ==
    /\ value.t = "obj"
    /\ Len(value.props) > 0
    /\ \A i \in 1..Len(value.props) : ~IsDot(value.props[i][1])

RECURSIVE Visits(_, _)
Visits(value, at) ==
    LET here == [path |-> at.path, specifier |-> at.specifier,
                 conditions |-> at.conditions, value |-> value]
        Below(i) ==
            LET key == value.props[i][1]
            IN  Visits(value.props[i][2],
                       [path |-> at.path \o <<Key(key)>>,
                        specifier |-> IF IsDot(key) THEN Some(key)
                                      ELSE at.specifier,
                        conditions |->
                          IF IsDot(key) THEN at.conditions
                          ELSE IF at.conditions.def
                          THEN Some(at.conditions.v \o <<key>>)
                          ELSE Some(<<key>>)])
    IN  {here} \cup
        CASE value.t = "arr" /\ Len(value.items) > 0 ->
               Visits(value.items[1],
                      [at EXCEPT !.path = at.path \o <<Index(0)>>])
          [] IsConditions(value)
               \/ (IsSpecifiers(value) /\ ~at.specifier.def) ->
               UNION { Below(i) : i \in 1..Len(value.props) }
          [] OTHER -> {}

Visited ==
    IF HasField(sExports)
    THEN Visits(Field(sExports),
                [path |-> <<Key(sExports)>>, specifier |-> Undefined,
                 conditions |-> Undefined])
    ELSE {}

\* The messages of a rule at a path.
MessagesAt(ruleId, jsonPath) ==
    { k \in 1..Len(messages) :
        messages[k].ruleId = ruleId /\ messages[k].path = jsonPath }

\* Whether two conditions are members of one exclusivity group.
ShareGroup(left, right) ==
    \E g \in 1..Len(mutuallyExclusiveConditions) :
        /\ ArrayIncludes(mutuallyExclusiveConditions[g].conditions, left)
        /\ ArrayIncludes(mutuallyExclusiveConditions[g].conditions, right)

\* C13: in a finished run, a key of a conditions object has one
\* exports-conditions-mutually-exclusive message, naming the key and the
\* first enclosing condition that shares a group with it, when there is such
\* a condition, and none otherwise.
C13_OneExclusiveMessagePerKey ==
    Returned =>
        \A v \in Visited :
            IsConditions(v.value) =>
              \A i \in 1..Len(v.value.props) :
                  LET key == v.value.props[i][1]
                      enclosing == IF v.conditions.def THEN v.conditions.v
                                   ELSE <<>>
                      sharing == { h \in 1..Len(enclosing) :
                                     ShareGroup(key, enclosing[h]) }
                      found == MessagesAt(
                                 "exports-conditions-mutually-exclusive",
                                 v.path \o <<Key(key)>>)
                  IN  IF sharing = {} THEN found = {}
                      ELSE /\ Cardinality(found) = 1
                           /\ \A k \in found :
                                  messages[k].detail
                                    = << key,
                                         enclosing[CHOOSE h \in sharing :
                                            \A g \in sharing : h <= g] >>


KeysOf(value) == { value.props[i][1] : i \in 1..Len(value.props) }

\* C14: in a finished run, a conditions object without a `default` key has
\* no exports-conditions-default-missing message when `import` and `require`
\* are both among its keys, and exactly one, at the object, naming its
\* specifier, otherwise, whatever other groups its keys make up.
C14_DefaultMissingUnlessImportAndRequire ==
    Returned =>
        \A v \in Visited :
            IsConditions(v.value) /\ sDefault \notin KeysOf(v.value) =>
              LET found == MessagesAt("exports-conditions-default-missing",
                                      v.path)
              IN  IF { <<"i","m","p","o","r","t">>, <<"r","e","q","u","i","r","e">> } \subseteq KeysOf(v.value)
                  THEN found = {}
                  ELSE /\ Cardinality(found) = 1
                       /\ \A k \in found :
                              messages[k].detail
                                = << IF v.specifier.def THEN v.specifier.v
                                     ELSE sDot >>

\* C14, witness: a finished run over an object of `import` and `require`
\* without `default`, which has no exports-conditions-default-missing.
C14_ImportAndRequireReturned ==
    /\ Returned
    /\ \E v \in Visited :
           /\ IsConditions(v.value)
           /\ KeysOf(v.value) = { <<"i","m","p","o","r","t">>, <<"r","e","q","u","i","r","e">> }
           /\ MessagesAt("exports-conditions-default-missing", v.path) = {}


\* C15: in a finished run, a conditions object has one
\* exports-conditions-default-misplaced message, at the key declared last,
\* when `default` is among its keys and is not the key declared last, and
\* none otherwise; with a `default` key it has no
\* exports-conditions-default-missing; the string and null values of all its
\* keys, those after `default` too, are resolved.
C15_MisplacedIffDefaultNotDeclaredLast ==
    Returned =>
        \A v \in Visited :
            IsConditions(v.value) =>
              LET props == v.value.props
                  last == props[Len(props)][1]
                  under == UNION { MessagesAt(
                                     "exports-conditions-default-misplaced",
                                     v.path \o <<Key(props[i][1])>>) :
                                   i \in 1..Len(props) }
                  hasDefault == sDefault \in KeysOf(v.value)
              IN  /\ IF hasDefault /\ last # sDefault
                     THEN /\ Cardinality(under) = 1
                          /\ \A k \in under :
                                 messages[k].path = v.path \o <<Key(last)>>
                     ELSE under = {}
                  /\ hasDefault =>
                       MessagesAt("exports-conditions-default-missing",
                                  v.path) = {}
                  /\ \A i \in 1..Len(props) :
                         LET path == v.path \o <<Key(props[i][1])>>
                         IN  /\ props[i][2].t = "null" =>
                                  \E n \in 1..Len(negatedExports) :
                                      negatedExports[n].jsonPath = path
                             /\ (/\ props[i][2].t = "str"
                                 /\ StartsWith(props[i][2].s, sDotSlash)
                                 /\ ~Includes(props[i][2].s, Star)
                                 /\ negatedExports = <<>>) =>
                                  \E e \in 1..Len(exports) :
                                      exports[e].jsonPath = path


\* Whether a path goes on below another one.
Extends(path, prefix) ==
    Len(path) > Len(prefix) /\ SubSeq(path, 1, Len(prefix)) = prefix

\* The paths of all entries, negations and messages.
PathsInUse ==
    { exports[i].jsonPath : i \in 1..Len(exports) }
      \cup { negatedExports[i].jsonPath : i \in 1..Len(negatedExports) }
      \cup { messages[i].path : i \in 1..Len(messages) }

\* A string the walk enters as it is: prefixed with `./`, no wildcard.
IsPlainFile(value) ==
    /\ value.t = "str"
    /\ StartsWith(value.s, sDotSlash)
    /\ ~Includes(value.s, Star)

\* C16: in a finished run, an empty array has one exports-alternatives-empty
\* message and nothing below it; an array of one item or more has one
\* exports-alternatives message at its path, nothing comes from its items
\* after the first, and its first item is resolved under the specifier and
\* the conditions of the array.
C16_ArraysResolveFirstItemOnly ==
    Returned =>
        \A v \in Visited :
            v.value.t = "arr" =>
              LET items == v.value.items
                  first == v.path \o <<Index(0)>>
                  specifier == IF v.specifier.def THEN v.specifier.v
                               ELSE sDot
              IN  IF Len(items) = 0
                  THEN /\ Cardinality(MessagesAt("exports-alternatives-empty",
                                                 v.path)) = 1
                       /\ MessagesAt("exports-alternatives", v.path) = {}
                       /\ \A path \in PathsInUse : ~Extends(path, v.path)
                  ELSE /\ Cardinality(MessagesAt("exports-alternatives",
                                                 v.path)) = 1
                       /\ MessagesAt("exports-alternatives-empty", v.path)
                            = {}
                       /\ \A path \in PathsInUse :
                              Extends(path, v.path)
                                => path[Len(v.path) + 1] = Index(0)
                       /\ items[1].t = "null" =>
                            \E n \in 1..Len(negatedExports) :
                                /\ negatedExports[n].jsonPath = first
                                /\ negatedExports[n].specifier = specifier
                                /\ negatedExports[n].conditions = v.conditions
                       /\ (/\ IsPlainFile(items[1])
                           /\ ~Includes(specifier, Star)
                           /\ negatedExports = <<>>) =>
                            \E e \in 1..Len(exports) :
                                /\ exports[e].jsonPath = first
                                /\ exports[e].specifier = specifier
                                /\ exports[e].conditions = v.conditions

\* C16, witness: a finished run over an array of several items below a key,
\* with an entry for its first item.
C16_SeveralItemsReturned ==
    /\ Returned
    /\ \E v \in Visited :
           /\ v.value.t = "arr"
           /\ Len(v.value.items) >= 2
           /\ Len(v.path) >= 2
           /\ v.value.items[2].t \in { "str", "null", "obj" }
           /\ \E e \in 1..Len(exports) :
                  Extends(exports[e].jsonPath, v.path)


\* The positions of the specifier keys along a path.
SpecifierPositions(path) ==
    { h \in 1..Len(path) : IsKey(path[h]) /\ IsDot(path[h].key) }

\* C17: in a finished run, an object of specifiers reached where a specifier
\* is chosen already has one exports-specifier-nested message, listing all
\* its keys, and nothing comes from below it; no entry or negation has two
\* specifier keys on its path.
C17_SpecifiersNeverNest ==
    Returned =>
        /\ \A v \in Visited :
               IsSpecifiers(v.value) /\ v.specifier.def =>
                 LET found == MessagesAt("exports-specifier-nested", v.path)
                 IN  /\ Cardinality(found) = 1
                     /\ \A k \in found :
                            /\ Range(messages[k].detail) = KeysOf(v.value)
                            /\ Len(messages[k].detail) = Len(v.value.props)
                     /\ \A path \in PathsInUse : ~Extends(path, v.path)
        /\ \A path \in PathsInUse :
               Cardinality(SpecifierPositions(path)) <= 1

\* C17, witness: a finished run over an object of two specifiers found
\* below a specifier through a level of conditions or an array.
C17_NestedBelowConditionsReturned ==
    /\ Returned
    /\ \E v \in Visited :
           /\ IsSpecifiers(v.value)
           /\ v.specifier.def
           /\ Len(v.value.props) = 2
           /\ Len(v.path) >= 3
           /\ MessagesAt("exports-specifier-nested", v.path) # {}

\* C18: in a finished run, an object of keys of both kinds has one
\* exports-object-mixed message and nothing else: no entry, negation or
\* message comes from its keys or from below them.
C18_MixedObjectsStop ==
    Returned =>
        \A v \in Visited :
            v.value.t = "obj" /\ Len(v.value.props) > 0 /\ IsMixed(v.value) =>
              /\ Cardinality(MessagesAt("exports-object-mixed", v.path)) = 1
              /\ \A path \in PathsInUse : ~Extends(path, v.path)
              /\ \A k \in 1..Len(messages) :
                     messages[k].path = v.path =>
                       messages[k].ruleId
                         \in { "exports-object-mixed",
                               "exports-conditions-mutually-exclusive",
                               "exports-conditions-default-misplaced",
                               "exports-types-verbose" }

\* C18, witness: a finished run over a mixed object below a key, whose
\* values would each be reported or entered.
C18_MixedBelowKeyReturned ==
    /\ Returned
    /\ \E v \in Visited :
           /\ v.value.t = "obj"
           /\ Len(v.value.props) > 0
           /\ IsMixed(v.value)
           /\ Len(v.path) >= 2
           /\ \E i \in 1..Len(v.value.props) :
                  v.value.props[i][2].t \in { "arr", "num", "null" }


\* The condition keys along a path below `exports`, in nesting order.
ConditionKeysOn(path) ==
    LET Condition(step) == IsKey(step) /\ ~IsDot(step.key)
        below == SubSeq(path, 2, Len(path))
        kept == SelectSeq(below, Condition)
    IN  [k \in 1..Len(kept) |-> kept[k].key]

\* Whether a record below `exports` has the conditions and the specifier of
\* its path: the condition keys in nesting order, absent when there is none;
\* the one specifier key or `.`, with the wildcard of the key replaced when
\* the entry is expanded from it.
OfItsPath(record, expanded) ==
    LET path == record.jsonPath
        on == ConditionKeysOn(path)
        at == SpecifierPositions(path)
        effective == IF at = {} THEN sDot
                     ELSE path[CHOOSE h \in at : TRUE].key
        parts == Split(effective, Star)
    IN  /\ Len(path) >= 1
        /\ path[1] = Key(sExports)
        /\ Cardinality(at) <= 1
        /\ record.conditions = (IF on = <<>> THEN Undefined ELSE Some(on))
        /\ record.conditions # Some(<<>>)
        /\ IF expanded
           THEN /\ Len(parts) = 2
                /\ \E r \in Substrings(record.filePath) :
                       record.specifier = parts[1] \o r \o parts[2]
           ELSE record.specifier = effective

\* C19: every entry and every negation of an export map has as conditions
\* the condition keys on its path from the root, in nesting order, absent and
\* never empty when there is none, and has as specifier the one specifier
\* key on that path, or `.` when there is none.
C19_ConditionsAndSpecifierOfPath ==
    HasField(sExports) =>
        /\ \A i \in 1..Len(exports) :
               OfItsPath(exports[i], exports[i].globbed)
        /\ \A i \in 1..Len(negatedExports) :
               OfItsPath(negatedExports[i], FALSE)

\* C19, witness: a finished run with an entry or negation below a specifier,
\* two levels of different conditions and an array.
C19_NestedConditionsReturned ==
    /\ Returned
    /\ HasField(sExports)
    /\ \E record \in Range(exports) \cup Range(negatedExports) :
           /\ record.conditions.def
           /\ Len(record.conditions.v) >= 2
           /\ record.conditions.v[1] # record.conditions.v[2]
           /\ SpecifierPositions(record.jsonPath) # {}
           /\ \E h \in 1..Len(record.jsonPath) : ~IsKey(record.jsonPath[h])


\* The messages of a rule, wherever they are.
MessagesOf(ruleId) ==
    { k \in 1..Len(messages) : messages[k].ruleId = ruleId }

\* C20: in a finished run, a package with an `exports` field has one
\* exports-main-missing message when no entry left by the negations has the
\* specifier `.` and none otherwise, and a package without the field has
\* none.
C20_MainMissingIffNoMainEntryLeft ==
    Returned =>
        Cardinality(MessagesOf("exports-main-missing"))
          = (IF /\ HasField(sExports)
                /\ \A i \in 1..Len(exports) : exports[i].specifier # sDot
             THEN 1 ELSE 0)

\* C20, witness: a finished run over an export map that declares a file for
\* `.` and a negation of `.` under the same conditions, which removed it,
\* with the message.
C20_NegatedMainReturned ==
    /\ Returned
    /\ HasField(sExports)
    /\ \E v \in Visited :
           /\ IsPlainFile(v.value)
           /\ (v.specifier.def => v.specifier.v = sDot)
           /\ \E i \in 1..Len(negatedExports) :
                  /\ negatedExports[i].specifier = sDot
                  /\ SameConditionSet(negatedExports[i].conditions,
                                      v.conditions)
    /\ MessagesOf("exports-negated-missing") = {}
    /\ MessagesOf("exports-main-missing") # {}


\* Whether a rule is one of the export map's.
OfExportMap(ruleId) ==
    ruleId \in { "exports-alternatives", "exports-alternatives-empty",
                 "exports-conditions-default-misplaced",
                 "exports-conditions-default-missing",
                 "exports-conditions-mutually-exclusive",
                 "exports-conditions-verbose", "exports-main-missing",
                 "exports-negated-missing", "exports-object-empty",
                 "exports-object-mixed", "exports-path-not-found",
                 "exports-path-unprefixed", "exports-path-wildcard-not-found",
                 "exports-specifier-extension", "exports-specifier-nested",
                 "exports-specifier-wildcard-invalid",
                 "exports-specifier-wildcard-useless",
                 "exports-specifiers-verbose", "exports-types-verbose",
                 "exports-value-invalid" }

\* C21: in a finished run, with an `exports` field every entry has a path
\* below `exports`; without one, every shipped file has exactly one entry
\* with the file as specifier, and that entry has no conditions, exists and
\* has an empty path, and no message is of an export-map rule.
C21_ModesAreExclusive ==
    Returned =>
        IF HasField(sExports)
        THEN \A i \in 1..Len(exports) :
                 /\ Len(exports[i].jsonPath) >= 1
                 /\ exports[i].jsonPath[1] = Key(sExports)
        ELSE /\ \A f \in 1..Len(packagedFiles) :
                    LET of == { i \in 1..Len(exports) :
                                  exports[i].specifier = packagedFiles[f] }
                    IN  /\ Cardinality(of) = 1
                        /\ \A i \in of :
                               /\ exports[i].filePath = packagedFiles[f]
                               /\ exports[i].conditions = Undefined
                               /\ exports[i].exists
                               /\ exports[i].jsonPath = <<>>
             /\ \A k \in 1..Len(messages) : ~OfExportMap(messages[k].ruleId)
             /\ negatedExports = <<>>

\* C21, witness: a finished run without an `exports` field over three or
\* more shipped files, a default main file among them, with a `main` field.
C21_FilesEnumeratedReturned ==
    /\ Returned
    /\ ~HasField(sExports)
    /\ HasField(sMain)
    /\ Len(packagedFiles) >= 3
    /\ ArrayIncludes(packagedFiles, mainDefaults[1])
    /\ Len(exports) > Len(packagedFiles)


\* The entries whose specifier is `.`.
MainEntries == { i \in 1..Len(exports) : exports[i].specifier = sDot }

\* How many messages the rules have in all.
CountOf(ruleIds) ==
    Cardinality({ k \in 1..Len(messages) : messages[k].ruleId \in ruleIds })

\* Whether `main` is a string that names no shipped file as it is but names
\* one with a suffix added, in a package of type `module`.
MainOnlyThroughSuffixInModule ==
    /\ HasField(sMain)
    /\ Field(sMain).t = "str"
    /\ HasField(sType)
    /\ Field(sType) = Str(sModule)
    /\ LET main == Field(sMain).s
           normal == IF StartsWith(main, sDotSlash) THEN main
                     ELSE sDotSlash \o main
       IN  /\ ~ArrayIncludes(packagedFiles, normal)
           /\ \E i \in 1..Len(mainSuffixes) :
                  ArrayIncludes(packagedFiles, normal \o mainSuffixes[i])

\* C22: in a finished run without an `exports` field, at most one entry has
\* the specifier `.`; there is one exactly when one message of main,
\* main-resolve-commonjs and main-inferred was emitted; main-missing was
\* emitted exactly when there is none and no main-resolve-module,
\* main-not-found or main-invalid was emitted; and a `main` that resolves only
\* through a suffix in a module gives main-resolve-module and no entry at
\* `main`, and the default main files are still tried.
C22_MainResolution ==
    Returned /\ ~HasField(sExports) =>
        /\ Cardinality(MainEntries) <= 1
        /\ (MainEntries # {})
             <=> (CountOf({ "main", "main-resolve-commonjs",
                            "main-inferred" }) = 1)
        /\ CountOf({ "main-missing" }) <= 1
        /\ (CountOf({ "main-missing" }) = 1)
             <=> /\ MainEntries = {}
                 /\ CountOf({ "main-resolve-module", "main-not-found",
                              "main-invalid" }) = 0
        /\ MainOnlyThroughSuffixInModule =>
             /\ CountOf({ "main-resolve-module" }) = 1
             /\ \A i \in 1..Len(exports) :
                    exports[i].jsonPath # <<Key(sMain)>>
             /\ IF \E d \in 1..Len(mainDefaults) :
                       ArrayIncludes(packagedFiles, mainDefaults[d])
                THEN /\ CountOf({ "main-inferred" }) = 1
                     /\ \E i \in MainEntries :
                            /\ ArrayIncludes(mainDefaults, exports[i].filePath)
                            /\ exports[i].jsonPath = <<>>
                ELSE MainEntries = {}

\* C22, witness: a finished run of a module whose `main` resolves only
\* through a suffix, with a default main file shipped and taken as the main
\* entry.
C22_ModuleSuffixThenInferredReturned ==
    /\ Returned
    /\ ~HasField(sExports)
    /\ MainOnlyThroughSuffixInModule
    /\ CountOf({ "main-resolve-module" }) = 1
    /\ CountOf({ "main-inferred" }) = 1
    /\ MainEntries # {}


\* Whether the passes that follow the walk have begun.
PassesBegun == pc \in { "negate", "ignored", "sort", "done" }

\* The rules of the passes that follow the walk.
PassRules ==
    { "exports-negated-missing", "exports-main-missing", "main-extra",
      "npm-ignored" }

\* C23: once the passes that follow the walk have begun, no existence check
\* is in flight, and a step adds no entry, changes no entry's `exists`, adds
\* no negation and adds no message but those of the passes.
C23_PassesAfterTheWalk ==
    [][PassesBegun =>
         /\ pending = {}
         /\ pending' = {}
         /\ Range(exports') \subseteq Range(exports)
         /\ Len(exports') <= Len(exports)
         /\ negatedExports' = negatedExports
         /\ \A k \in 1..Len(messages') :
                messages'[k].ruleId \notin PassRules =>
                  Cardinality({ h \in 1..Len(messages') :
                                  messages'[h] = messages'[k] })
                    = Cardinality({ h \in 1..Len(messages) :
                                      messages[h] = messages'[k] })]_vars

\* C23, witness: the negation pass under way after one existence check found
\* its file and another did not.
C23_NegatingAfterChecks ==
    /\ pc = "negate"
    /\ negatedIndex > 1
    /\ CountOf({ "exports-path-not-found" }) >= 1
    /\ \E i \in 1..Len(exports) :
           /\ exports[i].exists
           /\ ~ArrayIncludes(packagedFiles, exports[i].filePath)


\* C24: while the checks of the walk are in flight, an entry has one
\* exports-path-not-found message at its path when its check has failed and
\* none otherwise; a step in which the check of an entry fails leaves the
\* run going and the other checks in flight, keeps the entry with
\* exists = false, adds that one message, and changes nothing else, so that
\* all the rest is as when the check succeeds; and no check is started again.
C24_FailedCheckIsOnlyAMessage ==
    [][pc = "awaitExports" =>
         /\ \A i \in 1..Len(exports) :
                Cardinality(MessagesAt("exports-path-not-found",
                                       exports[i].jsonPath))
                  = (IF i \notin pending /\ ~exports[i].exists THEN 1 ELSE 0)
         /\ pending' \subseteq pending
         /\ \A i \in pending :
                i \notin pending' /\ exports[i].url \notin disk =>
                  /\ pc' = pc
                  /\ pending' = pending \ {i}
                  /\ exports' = [exports EXCEPT ![i].exists = FALSE]
                  /\ negatedExports' = negatedExports
                  /\ Len(messages') = Len(messages) + 1
                  /\ SubSeq(messages', 1, Len(messages)) = messages
                  /\ messages'[Len(messages')].ruleId
                       = "exports-path-not-found"
                  /\ messages'[Len(messages')].path = exports[i].jsonPath]_vars

\* C24, witness: the walk with one check failed, one succeeded and one still
\* in flight.
C24_FailedAmongSiblings ==
    /\ pc = "awaitExports"
    /\ pending # {}
    /\ \E i, j \in 1..Len(exports) \ pending :
           /\ ~exports[i].exists
           /\ MessagesAt("exports-path-not-found", exports[i].jsonPath) # {}
           /\ exports[j].exists
           /\ ~ArrayIncludes(packagedFiles, exports[j].filePath)


\* The existence checks of the walk completing one after another in the
\* order in which they were started.
RECURSIVE checksInOrder(_, _)
checksInOrder(st, i) ==
    IF Now(st) /\ i > Len(st.exports) THEN st
    ELSE IF i \notin st.pending THEN checksInOrder(st, i + 1)
    ELSE IF st.exports[i].url \in disk
    THEN checksInOrder([st EXCEPT !.exports[i].exists = TRUE,
                                  !.pending = @ \ {i}], i + 1)
    ELSE checksInOrder(
           [message(st, "exports-path-not-found",
                    <<st.exports[i].filePath, st.exports[i].specifier>>,
                    st.exports[i].jsonPath)
              EXCEPT !.exports[i].exists = FALSE, !.pending = @ \ {i}],
           i + 1)

\* The rounds of the negation pass from round k on.
RECURSIVE negationsFrom(_, _)
negationsFrom(st, k) ==
    IF Now(st) /\ k > Len(st.negatedExports) THEN st
    ELSE
      LET negated == st.negatedExports[k]
          Kept(export_) == ~Negates(negated, export_)
          found == \E i \in 1..Len(st.exports) :
                       Negates(negated, st.exports[i])
          told == IF found THEN st
                  ELSE message(st, "exports-negated-missing",
                               <<negated.specifier>>, negated.jsonPath)
      IN  negationsFrom([told EXCEPT !.exports = SelectSeq(st.exports, Kept)],
                        k + 1)

\* What packageExports returns when the checks complete in the order in
\* which they were started, or Undefined when it rejects.
InOrder ==
    LET checked == checkFields(StateOf(<<>>, <<>>, <<>>, {}))
        walked == IF HasField(sExports)
                  THEN resolveExports(checked, rootInfo, Field(sExports))
                  ELSE resolvePackagedFiles(resolveMainExport(checked))
        settled == checksInOrder(walked, 1)
        negated == IF HasField(sExports) THEN negationsFrom(settled, 1)
                   ELSE settled
        main == IF HasField(sExports)
                   /\ \A i \in 1..Len(negated.exports) :
                          negated.exports[i].specifier # sDot
                THEN message(negated, "exports-main-missing", <<>>, <<>>)
                ELSE negated
        extra == IF HasField(sExports) /\ HasField(sMain)
                 THEN message(main, "main-extra", <<>>, <<Key(sMain)>>)
                 ELSE main
        ignored == ignoredLoop(extra, 1)
        sorted == sortExports(ignored.exports)
    IN  IF ignored.threw THEN Undefined
        ELSE Some([exports |-> [i \in 1..Len(sorted) |->
                                  rawExportToExport(sorted[i])],
                   messages |-> sortMessages(ignored.messages),
                   name |-> IF HasField(sName) /\ Field(sName).t = "str"
                            THEN Some(Field(sName).s) ELSE Undefined])

\* C25: whatever the order in which the existence checks complete, a
\* finished run returns the entries and the messages that it returns when
\* they complete in the order in which they were started.
C25_CompletionOrderUnobservable ==
    Returned => result = InOrder

\* C25, witness: a finished run in which a check that failed and a check
\* that succeeded were in flight together, each with its message.
C25_TwoChecksReturned ==
    /\ Returned
    /\ CountOf({ "exports-path-not-found" }) >= 1
    /\ CountOf({ "npm-ignored" }) >= 1
    /\ \E i, j \in 1..Len(exports) :
           /\ ~exports[i].exists
           /\ exports[j].exists
           /\ ~ArrayIncludes(packagedFiles, exports[j].filePath)


\* How often a value occurs in a sequence.
Occurrences(list, value) ==
    Cardinality({ i \in 1..Len(list) : list[i] = value })

\* C26: no step changes the package data or the shipped files; after the
\* step that creates them, the negations never change and the entries change
\* in `exists` alone, and only while the checks of the walk are in flight;
\* the negation pass deletes whole entries, the npm-ignored pass leaves the
\* entries as they are, and the sort reorders them.
C26_RecordsAreFrozen ==
    [][/\ tree' = tree
       /\ packagedFiles' = packagedFiles
       /\ pc # "start" =>
            /\ negatedExports' = negatedExports
            /\ Len(exports') <= Len(exports)
       /\ pc \in { "awaitExports", "awaitFiles" } =>
            /\ Len(exports') = Len(exports)
            /\ \A i \in 1..Len(exports) :
                   [exports'[i] EXCEPT !.exists = exports[i].exists]
                     = exports[i]
       /\ pc = "negate" =>
            \A i \in 1..Len(exports') :
                /\ exports'[i] \in Range(exports)
                /\ Occurrences(exports', exports'[i])
                     <= Occurrences(exports, exports'[i])
       /\ pc = "ignored" => exports' = exports
       /\ pc = "sort" =>
            /\ Len(exports') = Len(exports)
            /\ \A i \in 1..Len(exports) :
                   Occurrences(exports', exports[i])
                     = Occurrences(exports, exports[i])]_vars

\* C26, witness: a finished run in which a check set an entry's `exists` and
\* a negation deleted another entry.
C26_CheckedNegatedSortedReturned ==
    /\ Returned
    /\ negatedExports # <<>>
    /\ CountOf({ "exports-negated-missing" }) = 0
    /\ \E i \in 1..Len(exports) :
           /\ exports[i].exists
           /\ ~ArrayIncludes(packagedFiles, exports[i].filePath)


\* How many `*` a string holds.
Wildcards(s) == Cardinality({ i \in 1..Len(s) : <<s[i]>> = Star })

\* Whether a visited value is a wildcard leaf: a string prefixed with `./`
\* that holds a `*`, for a specifier of exactly one `*`.
IsWildcardLeaf(v) ==
    /\ v.value.t = "str"
    /\ StartsWith(v.value.s, sDotSlash)
    /\ Wildcards(v.value.s) >= 1
    /\ v.specifier.def
    /\ Wildcards(v.specifier.v) = 1

\* The entries made at a path.
EntriesAt(jsonPath) ==
    { i \in 1..Len(exports) : exports[i].jsonPath = jsonPath }

\* C27: when the walk is over, every wildcard leaf has either one or more
\* entries and no exports-path-wildcard-not-found message, or no entry and
\* exactly one such message.
C27_WildcardLeafNeverSilent ==
    pc = "awaitExports" =>
        \A v \in Visited :
            IsWildcardLeaf(v) =>
              LET told == MessagesAt("exports-path-wildcard-not-found", v.path)
              IN  \/ EntriesAt(v.path) # {} /\ told = {}
                  \/ EntriesAt(v.path) = {} /\ Cardinality(told) = 1


\* The entries that a step deletes.
Deleted == Range(exports) \ Range(exports')

\* C28: a round of the negation pass for a negation with a wildcard, of
\* prefix P and suffix S, deletes only entries whose specifier is P, some
\* text and S one after the other: it starts with P, ends with S and is as
\* long as both together or longer.
C28_WildcardNegationNeedsRoom ==
    [][pc = "negate" /\ negatedIndex <= Len(negatedExports) =>
         LET specifier == negatedExports[negatedIndex].specifier
             asteriskIndex == IndexOf(specifier, Star, 1)
             head == Slice(specifier, 1, asteriskIndex - 1)
             tail == SliceFrom(specifier, asteriskIndex + 1)
         IN  asteriskIndex # 0 =>
               \A export_ \in Deleted :
                   /\ StartsWith(export_.specifier, head)
                   /\ EndsWith(export_.specifier, tail)
                   /\ Len(export_.specifier) >= Len(head) + Len(tail)]_vars


\* C29: every exports-conditions-mutually-exclusive message names two
\* different conditions.
C29_ExclusiveWithAnother ==
    \A k \in 1..Len(messages) :
        messages[k].ruleId = "exports-conditions-mutually-exclusive" =>
          messages[k].detail[1] # messages[k].detail[2]


\* The entries expanded from a wildcard of the export map.
Expanded ==
    { i \in 1..Len(exports) : HasField(sExports) /\ exports[i].globbed }

\* C30: every entry expanded from a wildcard exists, has a shipped file, has
\* no existence check in flight, and has no exports-path-not-found or
\* npm-ignored message at its path.
C30_ExpandedEntriesAreShipped ==
    \A i \in Expanded :
        /\ exports[i].exists
        /\ ArrayIncludes(packagedFiles, exports[i].filePath)
        /\ i \notin pending
        /\ MessagesAt("exports-path-not-found", exports[i].jsonPath) = {}
        /\ MessagesAt("npm-ignored", exports[i].jsonPath) = {}

\* C30, witness: a finished run with two entries expanded from one wildcard
\* and an entry that is not.
C30_ExpandedReturned ==
    /\ Returned
    /\ \E i, j \in Expanded :
           /\ exports[i].filePath # exports[j].filePath
           /\ exports[i].jsonPath = exports[j].jsonPath
    /\ \E i \in 1..Len(exports) : i \notin Expanded

============================================================================
